---- MODULE Spec2Model ----
(***************************************************************************)
(* QuickCrop backend: crop calculation, manual adjustment, heuristics      *)
(* learning (EMA), dual-model face matching, output storage, the circuit   *)
(* breaker and the processing queue.                                       *)
(*                                                                         *)
(* Each subsystem has its own specification (CalcSpec, AdjustSpec, ...):   *)
(* the subsystems share no state in the program, so each specification     *)
(* moves only its own variables and holds the others at their idle value.  *)
(*                                                                         *)
(* Python floats are modelled as exact rationals; where int(x * c) of the  *)
(* IEEE double product differs from the exact floor over the model's       *)
(* range, the operator lists those arguments (see FloatShort145).          *)
(***************************************************************************)
EXTENDS Integers, Sequences, FiniteSets, TLC

VARIABLES
    calcIn,        \* calculate_crop's arguments: [preset_type, face, image_width, image_height]
    calcOut,       \* calculate_crop's returned CropBox; Nothing before the call
    adjIn,         \* a manual adjustment case: [crop, adjustment, image_width, image_height]
    adjApplied,    \* apply_to_crop's result; Nothing before the call
    adjValid,      \* validate_manual_adjustment's result; Nothing before the call
    heurAlpha,     \* ema_calculator.alpha of the manager
    heurBuckets,   \* ema_calculator.buckets: bucket key -> parameter name -> value
    heurDb,        \* the params table and its AUTOINCREMENT counter: [params, next_id]
    heurLast,      \* the last EMA update call and the number of calls made so far
    heurExport,    \* the exported model file; Nothing before export_model
    heurExportSource, \* history: the manager as it was when the file was exported
    heurTarget,    \* the fresh manager after import_model; Nothing before
    detPrimary,    \* the short-range model's detections (primary)
    detSecondary,  \* the full-range model's detections (secondary)
    detMinIou,     \* min_iou of the find_unique_best_pair call
    detPair,       \* what find_unique_best_pair returned; Nothing before the call
    detFace,       \* what detect_face returned or raised; Nothing before the call
    stTree,        \* the output tree: [files: path -> content, metas: sidecar path -> fields]
    stToday,       \* the day datetime.now() falls on
    stCalls,       \* history: the save_output calls made, each with the path it returned
    cbBreaker,     \* the CircuitBreaker object
    cbNow,         \* datetime.now(), in seconds
    cbInFlight,    \* calls that are inside the wrapped function
    cbCalls,       \* calls entered so far
    cbRejected,    \* history: calls that raised ProcessingError at the state check
    cbConsecutive, \* history: calls that raised expected_exception since the last other outcome
    cbLast,        \* history: the last step of a call and the state it found
    qJobs,         \* self.jobs: job id -> ProcessingJob
    qQueue,        \* self.queue: the job ids waiting, oldest first
    qWorkers,      \* self.workers: the worker tasks
    qRunning,      \* self.is_running
    qTaken,        \* history: [job, worker] in the order the jobs left the queue
    qEverStopped,  \* history: stop_workers has been called
    appPhase,      \* the application: created, running (lifespan at its yield), stopped
    appServices,   \* the two ProcessingQueueService instances
    appUploads,    \* files POST /upload/single has been called with
    appTasks,      \* background tasks added and not yet run
    appLast,       \* history: the last response of POST /upload/single
    exCalls,       \* calls of POST /process/{upload_id}/export made
    exLast,        \* history: the last export request and its response
    sgCalls,       \* calls of GET /suggestions/{upload_id}/suggestions made
    sgLast,        \* history: the last suggestions request and its response
    heCalls,       \* calls of a handler wrapped by handle_errors made
    heLast,        \* history: the last wrapped call and what it gave
    lnManager,     \* the heuristics manager: [buckets, db, samples]
    lnMinSamples,  \* min_samples_for_confidence the manager was built with
    lnClock,       \* the time, in clock units
    lnCalls,       \* calls made on the manager
    lnLast,        \* history: the last call, the manager before it and what it returned
    imJobs,        \* self.jobs: the stored jobs by job_id
    imNextId,      \* the id the next ProcessingJob gets
    imLast,        \* history: the last call and what it returned
    rtArgs,        \* the arguments of the retry_async call
    rtRun,         \* the call: its position, locals and history
    ldManager,     \* the manager that writes the database: [buckets, db, samples]
    ldClock,       \* the time, in clock units
    ldCalls,       \* calls made on the writing manager
    ldLoaded,      \* the buckets of the manager constructed over the database, once it is
    rcDb,          \* the params table shared by the threads: [params, next_id]
    rcThreads,     \* per thread: where it is in update_ema_parameter and its variables
    rcLast,        \* the last write: the row its thread had read and the row stored before it
    igTree,        \* the storage tree: [files, metas]
    igSaves,       \* save_output calls made
    igLast,        \* the last verify_integrity call: the tree it saw and the issues it returned
    opInput,       \* the optimizer, the image and what the tools will do
    opLast,        \* the last optimize_image call: its inputs and what it returned
    prInput,       \* the service, the settings, the arguments and what the outside will do
    prLast,        \* the optimize_image_bytes call made: what it returned and whether Tinify got the bytes
    vmLog,         \* the validate_mime_type calls made: what magic sniffed and how the call ended
    rsManager,     \* the manager: [buckets, db, samples]
    rsMinSamples,  \* min_samples_for_confidence of the manager
    rsFresh,       \* the buckets reset by reset_learning and not learned for since
    rsCalls,       \* calls made on the manager
    rsLast,        \* the last call and what it returned
    csTree,        \* the storage tree: [files, metas]
    csCalls        \* per coroutine: where it is in save_output and the path it chose

CalcVars == <<calcIn, calcOut>>
AdjustVars == <<adjIn, adjApplied, adjValid>>
HeurVars == <<heurAlpha, heurBuckets, heurDb, heurLast, heurExport, heurExportSource, heurTarget>>
DetectVars == <<detPrimary, detSecondary, detMinIou, detPair, detFace>>
StorageVars == <<stTree, stToday, stCalls>>
BreakerVars == <<cbBreaker, cbNow, cbInFlight, cbCalls, cbRejected, cbConsecutive, cbLast>>
QueueVars == <<qJobs, qQueue, qWorkers, qRunning, qTaken, qEverStopped>>
AppVars == <<appPhase, appServices, appUploads, appTasks, appLast>>
ExportVars == <<exCalls, exLast>>
SuggestVars == <<sgCalls, sgLast>>
HandlerVars == <<heCalls, heLast>>
LearnVars == <<lnManager, lnMinSamples, lnClock, lnCalls, lnLast>>
ImmediateVars == <<imJobs, imNextId, imLast>>
RetryVars == <<rtArgs, rtRun>>
LoadVars == <<ldManager, ldClock, ldCalls, ldLoaded>>
RaceVars == <<rcDb, rcThreads, rcLast>>
IntegrityVars == <<igTree, igSaves, igLast>>
OptimizerVars == <<opInput, opLast>>
ProcessorVars == <<prInput, prLast>>
ValidatorsVars == <<vmLog>>
ResetVars == <<rsManager, rsMinSamples, rsFresh, rsCalls, rsLast>>
ConcurrentSaveVars == <<csTree, csCalls>>
vars == <<CalcVars, AdjustVars, HeurVars, DetectVars, StorageVars, BreakerVars, QueueVars, AppVars, ExportVars, SuggestVars, HandlerVars, LearnVars, ImmediateVars, RetryVars, LoadVars, RaceVars, IntegrityVars, OptimizerVars, ProcessorVars, ValidatorsVars, ResetVars, ConcurrentSaveVars>>

\* What each subsystem's actions leave alone: the other subsystems' state.
CalcOthers == <<AdjustVars, HeurVars, DetectVars, StorageVars, BreakerVars, QueueVars, AppVars, ExportVars, SuggestVars, HandlerVars, LearnVars, ImmediateVars, RetryVars, LoadVars, RaceVars, IntegrityVars, OptimizerVars, ProcessorVars, ValidatorsVars, ResetVars, ConcurrentSaveVars>>
AdjustOthers == <<CalcVars, HeurVars, DetectVars, StorageVars, BreakerVars, QueueVars, AppVars, ExportVars, SuggestVars, HandlerVars, LearnVars, ImmediateVars, RetryVars, LoadVars, RaceVars, IntegrityVars, OptimizerVars, ProcessorVars, ValidatorsVars, ResetVars, ConcurrentSaveVars>>
HeurOthers == <<CalcVars, AdjustVars, DetectVars, StorageVars, BreakerVars, QueueVars, AppVars, ExportVars, SuggestVars, HandlerVars, LearnVars, ImmediateVars, RetryVars, LoadVars, RaceVars, IntegrityVars, OptimizerVars, ProcessorVars, ValidatorsVars, ResetVars, ConcurrentSaveVars>>
DetectOthers == <<CalcVars, AdjustVars, HeurVars, StorageVars, BreakerVars, QueueVars, AppVars, ExportVars, SuggestVars, HandlerVars, LearnVars, ImmediateVars, RetryVars, LoadVars, RaceVars, IntegrityVars, OptimizerVars, ProcessorVars, ValidatorsVars, ResetVars, ConcurrentSaveVars>>
StorageOthers == <<CalcVars, AdjustVars, HeurVars, DetectVars, BreakerVars, QueueVars, AppVars, ExportVars, SuggestVars, HandlerVars, LearnVars, ImmediateVars, RetryVars, LoadVars, RaceVars, IntegrityVars, OptimizerVars, ProcessorVars, ValidatorsVars, ResetVars, ConcurrentSaveVars>>
BreakerOthers == <<CalcVars, AdjustVars, HeurVars, DetectVars, StorageVars, QueueVars, AppVars, ExportVars, SuggestVars, HandlerVars, LearnVars, ImmediateVars, RetryVars, LoadVars, RaceVars, IntegrityVars, OptimizerVars, ProcessorVars, ValidatorsVars, ResetVars, ConcurrentSaveVars>>
QueueOthers == <<CalcVars, AdjustVars, HeurVars, DetectVars, StorageVars, BreakerVars, AppVars, ExportVars, SuggestVars, HandlerVars, LearnVars, ImmediateVars, RetryVars, LoadVars, RaceVars, IntegrityVars, OptimizerVars, ProcessorVars, ValidatorsVars, ResetVars, ConcurrentSaveVars>>
AppOthers == <<CalcVars, AdjustVars, HeurVars, DetectVars, StorageVars, BreakerVars, QueueVars, ExportVars, SuggestVars, HandlerVars, LearnVars, ImmediateVars, RetryVars, LoadVars, RaceVars, IntegrityVars, OptimizerVars, ProcessorVars, ValidatorsVars, ResetVars, ConcurrentSaveVars>>
ExportOthers == <<CalcVars, AdjustVars, HeurVars, DetectVars, StorageVars, BreakerVars, QueueVars, AppVars, SuggestVars, HandlerVars, LearnVars, ImmediateVars, RetryVars, LoadVars, RaceVars, IntegrityVars, OptimizerVars, ProcessorVars, ValidatorsVars, ResetVars, ConcurrentSaveVars>>
SuggestOthers == <<CalcVars, AdjustVars, HeurVars, DetectVars, StorageVars, BreakerVars, QueueVars, AppVars, ExportVars, HandlerVars, LearnVars, ImmediateVars, RetryVars, LoadVars, RaceVars, IntegrityVars, OptimizerVars, ProcessorVars, ValidatorsVars, ResetVars, ConcurrentSaveVars>>
HandlerOthers == <<CalcVars, AdjustVars, HeurVars, DetectVars, StorageVars, BreakerVars, QueueVars, AppVars, ExportVars, SuggestVars, LearnVars, ImmediateVars, RetryVars, LoadVars, RaceVars, IntegrityVars, OptimizerVars, ProcessorVars, ValidatorsVars, ResetVars, ConcurrentSaveVars>>
LearnOthers == <<CalcVars, AdjustVars, HeurVars, DetectVars, StorageVars, BreakerVars, QueueVars, AppVars, ExportVars, SuggestVars, HandlerVars, ImmediateVars, RetryVars, LoadVars, RaceVars, IntegrityVars, OptimizerVars, ProcessorVars, ValidatorsVars, ResetVars, ConcurrentSaveVars>>
ImmediateOthers == <<CalcVars, AdjustVars, HeurVars, DetectVars, StorageVars, BreakerVars, QueueVars, AppVars, ExportVars, SuggestVars, HandlerVars, LearnVars, RetryVars, LoadVars, RaceVars, IntegrityVars, OptimizerVars, ProcessorVars, ValidatorsVars, ResetVars, ConcurrentSaveVars>>
RetryOthers == <<CalcVars, AdjustVars, HeurVars, DetectVars, StorageVars, BreakerVars, QueueVars, AppVars, ExportVars, SuggestVars, HandlerVars, LearnVars, ImmediateVars, LoadVars, RaceVars, IntegrityVars, OptimizerVars, ProcessorVars, ValidatorsVars, ResetVars, ConcurrentSaveVars>>
LoadOthers == <<CalcVars, AdjustVars, HeurVars, DetectVars, StorageVars, BreakerVars, QueueVars, AppVars, ExportVars, SuggestVars, HandlerVars, LearnVars, ImmediateVars, RetryVars, RaceVars, IntegrityVars, OptimizerVars, ProcessorVars, ValidatorsVars, ResetVars, ConcurrentSaveVars>>
RaceOthers == <<CalcVars, AdjustVars, HeurVars, DetectVars, StorageVars, BreakerVars, QueueVars, AppVars, ExportVars, SuggestVars, HandlerVars, LearnVars, ImmediateVars, RetryVars, LoadVars, IntegrityVars, OptimizerVars, ProcessorVars, ValidatorsVars, ResetVars, ConcurrentSaveVars>>
IntegrityOthers == <<CalcVars, AdjustVars, HeurVars, DetectVars, StorageVars, BreakerVars, QueueVars, AppVars, ExportVars, SuggestVars, HandlerVars, LearnVars, ImmediateVars, RetryVars, LoadVars, RaceVars, OptimizerVars, ProcessorVars, ValidatorsVars, ResetVars, ConcurrentSaveVars>>
OptimizerOthers == <<CalcVars, AdjustVars, HeurVars, DetectVars, StorageVars, BreakerVars, QueueVars, AppVars, ExportVars, SuggestVars, HandlerVars, LearnVars, ImmediateVars, RetryVars, LoadVars, RaceVars, IntegrityVars, ProcessorVars, ValidatorsVars, ResetVars, ConcurrentSaveVars>>
ProcessorOthers == <<CalcVars, AdjustVars, HeurVars, DetectVars, StorageVars, BreakerVars, QueueVars, AppVars, ExportVars, SuggestVars, HandlerVars, LearnVars, ImmediateVars, RetryVars, LoadVars, RaceVars, IntegrityVars, OptimizerVars, ValidatorsVars, ResetVars, ConcurrentSaveVars>>
ValidatorsOthers == <<CalcVars, AdjustVars, HeurVars, DetectVars, StorageVars, BreakerVars, QueueVars, AppVars, ExportVars, SuggestVars, HandlerVars, LearnVars, ImmediateVars, RetryVars, LoadVars, RaceVars, IntegrityVars, OptimizerVars, ProcessorVars, ResetVars, ConcurrentSaveVars>>
ResetOthers == <<CalcVars, AdjustVars, HeurVars, DetectVars, StorageVars, BreakerVars, QueueVars, AppVars, ExportVars, SuggestVars, HandlerVars, LearnVars, ImmediateVars, RetryVars, LoadVars, RaceVars, IntegrityVars, OptimizerVars, ProcessorVars, ValidatorsVars, ConcurrentSaveVars>>
ConcurrentSaveOthers == <<CalcVars, AdjustVars, HeurVars, DetectVars, StorageVars, BreakerVars, QueueVars, AppVars, ExportVars, SuggestVars, HandlerVars, LearnVars, ImmediateVars, RetryVars, LoadVars, RaceVars, IntegrityVars, OptimizerVars, ProcessorVars, ValidatorsVars, ResetVars>>

None == "None"

\* Optional values: Nothing before a call has returned, Some(v) after it.
Nothing == <<>>
Some(v) == <<v>>
ValueOf(opt) == opt[1]

Min(a, b) == IF a <= b THEN a ELSE b
Max(a, b) == IF a >= b THEN a ELSE b

\* Python int() of the exact quotient num/den (den > 0): truncation toward zero.
TruncDiv(num, den) == IF num >= 0 THEN num \div den ELSE -((-num) \div den)

(***************************************************************************)
(* services/presets.py and services/crop_calculator.py                     *)
(***************************************************************************)
PresetType == {"headshot", "avatar", "thumbnail", "website", "full_body"}

FaceBox(x, y, width, height) == [x |-> x, y |-> y, width |-> width, height |-> height]

center_x(face) == face.x + (face.width \div 2)

CropBox(x, y, width, height, preset_type) ==
    [x |-> x, y |-> y, width |-> width, height |-> height, preset_type |-> preset_type]

adjust_to_bounds(crop, image_width, image_height) ==
    LET x == Max(0, Min(crop.x, image_width - crop.width))
        y == Max(0, Min(crop.y, image_height - crop.height))
        width == Min(crop.width, image_width - x)
        height == Min(crop.height, image_height - y)
    IN  CropBox(x, y, width, height, crop.preset_type)

HeadshotMinSize == 1000
WebsiteMinHeight == 1200
FullBodyMinHeight == 2000

\* Arguments s in 1..6000 at which the double product s * 0.145 falls just
\* below the exact integer value, so that int() returns one less than it.
FloatShort145 == {200, 400, 800, 1600, 3000, 3200, 3400, 5800, 6000}

\* int(crop_size * 0.145)
HeadPosition145(crop_size) ==
    IF crop_size \in FloatShort145 THEN TruncDiv(crop_size * 145, 1000) - 1
    ELSE TruncDiv(crop_size * 145, 1000)

\* estimated_head_top = face.y - int(face.height * 0.15)
estimated_head_top(face) == face.y - TruncDiv(face.height * 15, 100)

\* The vertical fallback shared by the three calculators.
ClampCropY(crop_y, crop_height, image_height) ==
    IF crop_y < 0 THEN 0
    ELSE IF crop_y + crop_height > image_height THEN image_height - crop_height
    ELSE crop_y

HeadshotCropCalculator(preset_type, face, image_width, image_height) ==
    LET size0 == TruncDiv(Max(face.width, face.height) * 32, 10)
        min_size == Min(HeadshotMinSize, Min(image_width, image_height))
        size1 == Max(size0, min_size)
        crop_size == Min(size1, Min(image_width, image_height))
        crop_y0 == estimated_head_top(face) - HeadPosition145(crop_size)
        crop_y == ClampCropY(crop_y0, crop_size, image_height)
        crop_x == center_x(face) - (crop_size \div 2)
    IN  adjust_to_bounds(CropBox(crop_x, crop_y, crop_size, crop_size, preset_type),
                         image_width, image_height)

\* The portrait calculator with the aspect ratio taken as height / width.
PortraitCropCalculator_Inverted(preset_type, face, image_width, image_height, an, ad, fm, min_h, cn) ==
    LET h0 == TruncDiv(face.height * fm, 1)
        w0 == TruncDiv(h0 * ad, an)
        min_height == Min(min_h, image_height)
        h1 == IF h0 < min_height THEN min_height ELSE h0
        w1 == IF h0 < min_height THEN TruncDiv(min_height * ad, an) ELSE w0
        w2 == IF w1 > image_width THEN image_width ELSE w1
        h2 == IF w1 > image_width THEN TruncDiv(image_width * an, ad) ELSE h1
        crop_height == IF h2 > image_height THEN image_height ELSE h2
        crop_width == IF h2 > image_height THEN TruncDiv(image_height * ad, an) ELSE w2
        crop_y0 == estimated_head_top(face) - TruncDiv(crop_height * cn, 1000)
        crop_y == ClampCropY(crop_y0, crop_height, image_height)
        crop_x == center_x(face) - (crop_width \div 2)
    IN  adjust_to_bounds(CropBox(crop_x, crop_y, crop_width, crop_height, preset_type),
                         image_width, image_height)

\* The portrait calculators: aspect ratio an/ad (width / height), crop height
\* fm * face.height, minimum height min_h, head clearance cn/1000.
PortraitCropCalculator(preset_type, face, image_width, image_height, an, ad, fm, min_h, cn) ==
    LET h0 == TruncDiv(face.height * fm, 1)
        w0 == TruncDiv(h0 * an, ad)
        min_height == Min(min_h, image_height)
        h1 == IF h0 < min_height THEN min_height ELSE h0
        w1 == IF h0 < min_height THEN TruncDiv(min_height * an, ad) ELSE w0
        w2 == IF w1 > image_width THEN image_width ELSE w1
        h2 == IF w1 > image_width THEN TruncDiv(image_width * ad, an) ELSE h1
        crop_height == IF h2 > image_height THEN image_height ELSE h2
        crop_width == IF h2 > image_height THEN TruncDiv(image_height * an, ad) ELSE w2
        crop_y0 == estimated_head_top(face) - TruncDiv(crop_height * cn, 1000)
        crop_y == ClampCropY(crop_y0, crop_height, image_height)
        crop_x == center_x(face) - (crop_width \div 2)
    IN  adjust_to_bounds(CropBox(crop_x, crop_y, crop_width, crop_height, preset_type),
                         image_width, image_height)

WebsiteCropCalculator(preset_type, face, image_width, image_height) ==
    PortraitCropCalculator(preset_type, face, image_width, image_height,
                           4, 5, 4, WebsiteMinHeight, 138)

FullBodyCropCalculator(preset_type, face, image_width, image_height) ==
    PortraitCropCalculator(preset_type, face, image_width, image_height,
                           17, 20, 5, FullBodyMinHeight, 161)

\* CropCalculatorFactory._calculators and calculate_crop
calculate_crop(preset_type, face, image_width, image_height) ==
    CASE preset_type \in {"headshot", "avatar", "thumbnail"} ->
            HeadshotCropCalculator(preset_type, face, image_width, image_height)
      [] preset_type = "website" ->
            WebsiteCropCalculator(preset_type, face, image_width, image_height)
      [] preset_type = "full_body" ->
            FullBodyCropCalculator(preset_type, face, image_width, image_height)

validate_crop_bounds(crop, image_width, image_height) ==
    IF crop.x < 0 THEN <<FALSE, "Crop x position is negative">>
    ELSE IF crop.y < 0 THEN <<FALSE, "Crop y position is negative">>
    ELSE IF crop.x + crop.width > image_width THEN <<FALSE, "Crop extends beyond image width">>
    ELSE IF crop.y + crop.height > image_height THEN <<FALSE, "Crop extends beyond image height">>
    ELSE IF crop.width <= 0 THEN <<FALSE, "Crop width must be positive">>
    ELSE IF crop.height <= 0 THEN <<FALSE, "Crop height must be positive">>
    ELSE <<TRUE, None>>

\* Bounds of the calculate_crop inputs.
MaxTinySize == 3
SizeStep == 500
MaxSizeSteps == 5
FaceStep == 150
MaxFaceSteps == 3
PosStep == 400
MaxPosSteps == 3

ImageSizes == (1..MaxTinySize) \cup {SizeStep * k : k \in 1..MaxSizeSteps}
FaceSizes == {1} \cup {FaceStep * k : k \in 1..MaxFaceSteps}
FacePositions == {PosStep * k : k \in -1..MaxPosSteps}

CalcInputs ==
    [preset_type : PresetType,
     face : [x : FacePositions, y : FacePositions, width : FaceSizes, height : FaceSizes],
     image_width : ImageSizes,
     image_height : ImageSizes]

CalculateCrop ==
    /\ calcOut = Nothing
    /\ calcOut' = Some(calculate_crop(calcIn.preset_type, calcIn.face,
                                      calcIn.image_width, calcIn.image_height))
    /\ UNCHANGED <<calcIn, CalcOthers>>

(***************************************************************************)
(* services/crop_processor.py: ManualAdjustment                            *)
(***************************************************************************)
\* scale is the rational scale_num / ScaleDen
ScaleDen == 10

ManualAdjustment(offset_x, offset_y, scale_num) ==
    [offset_x |-> offset_x, offset_y |-> offset_y, scale |-> scale_num]

\* apply_to_crop with the offsets applied to the unscaled position only
\* (the centring term of the scale step forgotten).
apply_to_crop_NoCentre(adjustment, crop, image_width, image_height) ==
    LET new_width == TruncDiv(crop.width * adjustment.scale, ScaleDen)
        new_height == TruncDiv(crop.height * adjustment.scale, ScaleDen)
    IN  adjust_to_bounds(CropBox(crop.x + adjustment.offset_x, crop.y + adjustment.offset_y,
                                 new_width, new_height, crop.preset_type),
                         image_width, image_height)

apply_to_crop(adjustment, crop, image_width, image_height) ==
    LET new_width == TruncDiv(crop.width * adjustment.scale, ScaleDen)
        new_height == TruncDiv(crop.height * adjustment.scale, ScaleDen)
        \* Python // is floor division
        scale_offset_x == (crop.width - new_width) \div 2
        scale_offset_y == (crop.height - new_height) \div 2
        new_x == crop.x + scale_offset_x + adjustment.offset_x
        new_y == crop.y + scale_offset_y + adjustment.offset_y
    IN  adjust_to_bounds(CropBox(new_x, new_y, new_width, new_height, crop.preset_type),
                         image_width, image_height)

MinScaleNum == 5
MaxScaleNum == 20
MinAdjustedSize == 100

\* validate_manual_adjustment with the scale limits made exclusive.
validate_manual_adjustment_Strict(adjustment, crop, image_width, image_height) ==
    IF adjustment.scale <= MinScaleNum THEN <<FALSE, "Scale cannot be less than 0.5">>
    ELSE IF adjustment.scale >= MaxScaleNum THEN <<FALSE, "Scale cannot be greater than 2.0">>
    ELSE LET adjusted == apply_to_crop(adjustment, crop, image_width, image_height)
         IN  IF adjusted.width < MinAdjustedSize \/ adjusted.height < MinAdjustedSize
             THEN <<FALSE, "Adjusted crop is too small">>
             ELSE <<TRUE, None>>

validate_manual_adjustment(adjustment, crop, image_width, image_height) ==
    IF adjustment.scale < MinScaleNum THEN <<FALSE, "Scale cannot be less than 0.5">>
    ELSE IF adjustment.scale > MaxScaleNum THEN <<FALSE, "Scale cannot be greater than 2.0">>
    ELSE LET adjusted == apply_to_crop(adjustment, crop, image_width, image_height)
         IN  IF adjusted.width < MinAdjustedSize \/ adjusted.height < MinAdjustedSize
             THEN <<FALSE, "Adjusted crop is too small">>
             ELSE <<TRUE, None>>

\* Bounds of the adjustment inputs.
AdjPosStep == 100
MaxAdjPosSteps == 2
AdjSizeStep == 50
MaxAdjSizeSteps == 2

AdjCropXs == {AdjPosStep * k : k \in 0..MaxAdjPosSteps}
AdjCropYs == {AdjPosStep * k : k \in 1..MaxAdjPosSteps}
AdjCropSizes == {100 + AdjSizeStep * k : k \in 0..MaxAdjSizeSteps}
AdjOffsetXs == {-100, 0, 20}
AdjOffsetYs == {0, 10}
AdjScales == {3, 5, 6, 10, 15, 20, 30}
AdjImageWidths == {90, 250, 1000}
AdjImageHeights == {250, 1000}

AdjInputs ==
    [crop : [x : AdjCropXs, y : AdjCropYs, width : AdjCropSizes, height : AdjCropSizes,
             preset_type : {"headshot"}],
     adjustment : [offset_x : AdjOffsetXs, offset_y : AdjOffsetYs, scale : AdjScales],
     image_width : AdjImageWidths,
     image_height : AdjImageHeights]

ApplyToCrop ==
    /\ adjApplied = Nothing
    /\ adjApplied' = Some(apply_to_crop(adjIn.adjustment, adjIn.crop,
                                        adjIn.image_width, adjIn.image_height))
    /\ UNCHANGED <<adjIn, adjValid, AdjustOthers>>

ValidateManualAdjustment ==
    /\ adjValid = Nothing
    /\ adjValid' = Some(validate_manual_adjustment(adjIn.adjustment, adjIn.crop,
                                                   adjIn.image_width, adjIn.image_height))
    /\ UNCHANGED <<adjIn, adjApplied, AdjustOthers>>

(***************************************************************************)
(* services/heuristics: EMACalculator, HeuristicsDB, HeuristicsManager     *)
(*                                                                         *)
(* A float is an exact rational [num, den] in lowest terms, den > 0.       *)
(***************************************************************************)
RECURSIVE GCD(_, _)
GCD(a, b) == IF b = 0 THEN a ELSE GCD(b, a % b)

Abs(n) == IF n < 0 THEN -n ELSE n

Rat(n, d) ==
    LET g == GCD(Abs(n), d)
    IN  IF n = 0 THEN [num |-> 0, den |-> 1] ELSE [num |-> n \div g, den |-> d \div g]

RatAdd(p, q) == Rat(p.num * q.den + q.num * p.den, p.den * q.den)
RatSub(p, q) == Rat(p.num * q.den - q.num * p.den, p.den * q.den)
RatMul(p, q) == Rat(p.num * q.num, p.den * q.den)
RatOne == Rat(1, 1)

\* EMACalculator.calculate_ema with the two weights exchanged.
calculate_ema_Swapped(old_value, new_value, alpha) ==
    RatAdd(RatMul(alpha, old_value), RatMul(RatSub(RatOne, alpha), new_value))

\* EMACalculator.calculate_ema: (1 - alpha) * old_value + alpha * new_value
calculate_ema(old_value, new_value, alpha) ==
    RatAdd(RatMul(RatSub(RatOne, alpha), old_value), RatMul(alpha, new_value))

\* EMACalculator.create_bucket_key: f"{aspect_class}_{zoom_level}"
create_bucket_key(aspect_class, zoom_level) == aspect_class \o "_" \o zoom_level

\* A dict d with d[k] = v set.
DictSet(d, k, v) == [x \in (DOMAIN d) \cup {k} |-> IF x = k THEN v ELSE d[x]]

EmptyDict == [x \in {} |-> 0]

HasParam(bkts, bucket_key, parameter_name) ==
    bucket_key \in DOMAIN bkts /\ parameter_name \in DOMAIN bkts[bucket_key]

\* EMACalculator.update_bucket: the new self.buckets
update_bucket(bkts, alpha, bucket_key, parameter_name, new_value) ==
    LET bucket == IF bucket_key \in DOMAIN bkts THEN bkts[bucket_key] ELSE EmptyDict
        new_ema == IF parameter_name \in DOMAIN bucket
                   THEN calculate_ema(bucket[parameter_name], new_value, alpha)
                   ELSE new_value
    IN  DictSet(bkts, bucket_key, DictSet(bucket, parameter_name, new_ema))

\* A row of the params table (created_at and updated_at are left out).
ParamRow(id, value, sample_count, alpha) ==
    [id |-> id, value |-> value, sample_count |-> sample_count, alpha |-> alpha]

\* HeuristicsDB.update_ema_parameter: the new [params, next_id]
update_ema_parameter(db, aspect_class, zoom_level, parameter_name, new_value, alpha) ==
    LET key == <<aspect_class, zoom_level, parameter_name>>
    IN  IF key \in DOMAIN db.params
        THEN LET row == db.params[key]
                 ema_value == RatAdd(RatMul(RatSub(RatOne, alpha), row.value),
                                     RatMul(alpha, new_value))
             IN  [db EXCEPT !.params = DictSet(db.params, key,
                                               [row EXCEPT !.value = ema_value,
                                                           !.sample_count = row.sample_count + 1])]
        ELSE [params |-> DictSet(db.params, key, ParamRow(db.next_id, new_value, 1, alpha)),
              next_id |-> db.next_id + 1]

\* HeuristicsDB.get_ema_parameters
get_ema_parameters(db, aspect_class, zoom_level) ==
    LET names == {k[3] : k \in {k2 \in DOMAIN db.params :
                                    k2[1] = aspect_class /\ k2[2] = zoom_level}}
    IN  [p \in names |-> db.params[<<aspect_class, zoom_level, p>>].value]

AspectClasses == {"landscape", "portrait"}
ZoomLevels == {"medium"}
ParameterNames == {"center_x_offset", "width_scale"}

\* ORDER BY aspect_class, zoom_level, parameter_name over the keys above
SortedKeys ==
    << <<"landscape", "medium", "center_x_offset">>, <<"landscape", "medium", "width_scale">>,
       <<"portrait", "medium", "center_x_offset">>, <<"portrait", "medium", "width_scale">> >>

\* HeuristicsDB.export_params returning the rows in table order, not sorted
\* by key, and without the rows after the first.
export_params_FirstOnly(db) ==
    LET present == SelectSeq(SortedKeys, LAMBDA k : k \in DOMAIN db.params)
    IN  [version |-> "1.0",
         parameters |-> IF present = <<>> THEN <<>>
                        ELSE <<[id |-> db.params[present[1]].id,
                                aspect_class |-> present[1][1],
                                zoom_level |-> present[1][2],
                                parameter_name |-> present[1][3],
                                value |-> db.params[present[1]].value,
                                sample_count |-> db.params[present[1]].sample_count,
                                alpha |-> db.params[present[1]].alpha]>>]

\* HeuristicsDB.export_params: every row as a dict, ordered by key
export_params(db) ==
    LET present == SelectSeq(SortedKeys, LAMBDA k : k \in DOMAIN db.params)
    IN  [version |-> "1.0",
         parameters |-> [i \in 1..Len(present) |->
                            [id |-> db.params[present[i]].id,
                             aspect_class |-> present[i][1],
                             zoom_level |-> present[i][2],
                             parameter_name |-> present[i][3],
                             value |-> db.params[present[i]].value,
                             sample_count |-> db.params[present[i]].sample_count,
                             alpha |-> db.params[present[i]].alpha]]]

\* One INSERT OR REPLACE of import_params: a row with the same unique key is
\* deleted and the new row gets a fresh id; the exported id is not used.
InsertOrReplace(db, param) ==
    [params |-> DictSet(db.params,
                        <<param.aspect_class, param.zoom_level, param.parameter_name>>,
                        ParamRow(db.next_id, param.value, param.sample_count, param.alpha)),
     next_id |-> db.next_id + 1]

RECURSIVE ImportRows(_, _)
ImportRows(db, rows) ==
    IF rows = <<>> THEN db ELSE ImportRows(InsertOrReplace(db, Head(rows)), Tail(rows))

\* HeuristicsDB.import_params
import_params(db, data) == ImportRows(db, data.parameters)

DefaultAlpha == Rat(1, 10)
MinSamplesForConfidence == 10

EmptyDB == [params |-> EmptyDict, next_id |-> 1]

\* HeuristicsManager.__init__ over a new database file: nothing to load
FreshManager ==
    [db |-> EmptyDB, buckets |-> EmptyDict, alpha |-> DefaultAlpha,
     min_samples_for_confidence |-> MinSamplesForConfidence]

\* HeuristicsManager.export_model: the model_data written as JSON. json.dump
\* and json.load keep strings, ints, finite floats, lists and string-keyed
\* dicts as they are; the statistics entry is written and never read back.
export_model(mgr) ==
    [version |-> "1.0",
     alpha |-> mgr.alpha,
     min_samples_for_confidence |-> mgr.min_samples_for_confidence,
     parameters |-> export_params(mgr.db),
     ema_state |-> mgr.buckets]

\* HeuristicsManager.import_model
import_model(mgr, model_data) ==
    [db |-> import_params(mgr.db, model_data.parameters),
     buckets |-> model_data.ema_state,
     alpha |-> model_data.alpha,
     min_samples_for_confidence |-> model_data.min_samples_for_confidence]

\* Bounds of the heuristics runs.
MaxHeurCalls == 3

AlphaChoices == {Rat(1, 10), Rat(1, 5)}
ObservedValues == {Rat(1, 10), Rat(2, 10)}
BucketKeys == {create_bucket_key(a, z) : a \in AspectClasses, z \in ZoomLevels}

\* The source manager as a record, for the operators above.
SourceManager ==
    [db |-> heurDb, buckets |-> heurBuckets, alpha |-> heurAlpha,
     min_samples_for_confidence |-> MinSamplesForConfidence]

NoCall == [n |-> 0, op |-> "none"]

\* ema_calculator.update_bucket(bucket_key, parameter_name, new_value)
UpdateBucket ==
    /\ heurLast.n < MaxHeurCalls
    /\ \E bk \in BucketKeys, p \in ParameterNames, v \in ObservedValues :
        /\ heurBuckets' = update_bucket(heurBuckets, heurAlpha, bk, p, v)
        /\ heurLast' = [n |-> heurLast.n + 1, op |-> "update_bucket",
                        bucket_key |-> bk, parameter_name |-> p, new_value |-> v]
    /\ UNCHANGED <<heurAlpha, heurDb, heurExport, heurExportSource, heurTarget, HeurOthers>>

\* db.update_ema_parameter(aspect_class, zoom_level, parameter_name, new_value,
\* alpha=self.ema_calculator.alpha), as the manager calls it
UpdateEmaParameter ==
    /\ heurLast.n < MaxHeurCalls
    /\ \E a \in AspectClasses, z \in ZoomLevels, p \in ParameterNames, v \in ObservedValues :
        /\ heurDb' = update_ema_parameter(heurDb, a, z, p, v, heurAlpha)
        /\ heurLast' = [n |-> heurLast.n + 1, op |-> "update_ema_parameter",
                        key |-> <<a, z, p>>, new_value |-> v, alpha |-> heurAlpha]
    /\ UNCHANGED <<heurAlpha, heurBuckets, heurExport, heurExportSource, heurTarget, HeurOthers>>

\* manager.export_model(export_path); heurExportSource remembers the manager
\* the file was written from.
ExportModel ==
    /\ heurExport = Nothing
    /\ heurExport' = Some(export_model(SourceManager))
    /\ heurExportSource' = Some(SourceManager)
    /\ UNCHANGED <<heurAlpha, heurBuckets, heurDb, heurLast, heurTarget, HeurOthers>>

\* new_manager = HeuristicsManager(db_path=new_db_path); new_manager.import_model(export_path)
ImportModel ==
    /\ heurExport # Nothing
    /\ heurTarget = Nothing
    /\ heurTarget' = Some(import_model(FreshManager, ValueOf(heurExport)))
    /\ UNCHANGED <<heurAlpha, heurBuckets, heurDb, heurLast, heurExport, heurExportSource, HeurOthers>>

(***************************************************************************)
(* services/detection.py: the dual-model face match                        *)
(*                                                                         *)
(* A detection is [bbox, score]: bbox = <<xmin, ymin, width, height>> on   *)
(* an integer grid (the relative coordinates times a common factor, which  *)
(* leaves every IoU unchanged), score a rational.                          *)
(***************************************************************************)
RatLess(p, q) == p.num * q.den < q.num * p.den

Detection(xmin, ymin, width, height, score) ==
    [bbox |-> <<xmin, ymin, width, height>>, score |-> score]

\* relative_bbox_tuple and detection_score of a detection
relative_bbox_tuple(detection) == detection.bbox
detection_score(detection) == detection.score

\* compute_iou: intersection over union, 0 when the union is empty
compute_iou(box_a, box_b) ==
    LET a_x2 == box_a[1] + box_a[3]
        a_y2 == box_a[2] + box_a[4]
        b_x2 == box_b[1] + box_b[3]
        b_y2 == box_b[2] + box_b[4]
        inter_w == Max(0, Min(a_x2, b_x2) - Max(box_a[1], box_b[1]))
        inter_h == Max(0, Min(a_y2, b_y2) - Max(box_a[2], box_b[2]))
        inter_area == inter_w * inter_h
        area_a == Max(0, box_a[3]) * Max(0, box_a[4])
        area_b == Max(0, box_b[3]) * Max(0, box_b[4])
        denom == area_a + area_b - inter_area
    IN  IF denom <= 0 THEN Rat(0, 1) ELSE Rat(inter_area, denom)

\* iter_overlapping_pairs from pair (i, j) on, primary by primary and for each
\* primary secondary by secondary: the sequence of <<i, j, avg_score>> yielded.
RECURSIVE PairsFrom(_, _, _, _, _)
PairsFrom(primary, secondary, min_iou, i, j) ==
    IF i > Len(primary) THEN <<>>
    ELSE IF j > Len(secondary) THEN PairsFrom(primary, secondary, min_iou, i + 1, 1)
    ELSE LET iou == compute_iou(relative_bbox_tuple(primary[i]), relative_bbox_tuple(secondary[j]))
             avg_score == RatMul(RatAdd(detection_score(primary[i]), detection_score(secondary[j])),
                                 Rat(1, 2))
             rest == PairsFrom(primary, secondary, min_iou, i, j + 1)
         IN  IF RatLess(iou, min_iou) THEN rest ELSE <<<<i, j, avg_score>>>> \o rest

iter_overlapping_pairs(primary, secondary, min_iou) == PairsFrom(primary, secondary, min_iou, 1, 1)

\* The loop of find_unique_best_pair over the yielded pairs: best_score is
\* Nothing for float('-inf'), best_pair is <<>> for None.
RECURSIVE BestPairLoop(_, _, _, _)
BestPairLoop(yielded, best_pair, best_score, matches) ==
    IF yielded = <<>> THEN [best_pair |-> best_pair, matches |-> matches]
    ELSE LET y == Head(yielded)
             better == best_score = Nothing \/ RatLess(ValueOf(best_score), y[3])
         IN  BestPairLoop(Tail(yielded),
                          IF better THEN <<y[1], y[2]>> ELSE best_pair,
                          IF better THEN Some(y[3]) ELSE best_score,
                          matches + 1)

NoPair == <<>>

\* find_unique_best_pair: <<i, j>> for (primary[i], secondary[j]), NoPair for None
find_unique_best_pair(primary, secondary, min_iou) ==
    LET loop == BestPairLoop(iter_overlapping_pairs(primary, secondary, min_iou), NoPair, Nothing, 0)
    IN  IF loop.matches = 1 THEN loop.best_pair ELSE NoPair

\* average_bounding_boxes of two boxes
average_bounding_boxes(box_a, box_b) == [k \in 1..4 |-> Rat(box_a[k] + box_b[k], 2)]

\* core/config.py: the fields class Settings declares that detection reads.
\* It declares no FACE_MATCH_IOU_THRESHOLD.
settings ==
    [MIN_DETECTION_CONFIDENCE |-> Rat(3, 4), MIN_TRACKING_CONFIDENCE |-> Rat(1, 2)]

\* DetectionService.detect_face on the detections of the two models. Reading
\* an attribute Settings does not declare raises AttributeError, and the
\* argument is evaluated before find_unique_best_pair is called.
detect_face(short_detections, full_detections) ==
    IF short_detections = <<>> \/ full_detections = <<>> THEN [kind |-> "None"]
    ELSE IF "FACE_MATCH_IOU_THRESHOLD" \notin DOMAIN settings
    THEN [kind |-> "AttributeError", name |-> "FACE_MATCH_IOU_THRESHOLD"]
    ELSE LET match == find_unique_best_pair(short_detections, full_detections,
                                            settings["FACE_MATCH_IOU_THRESHOLD"])
         IN  IF match = NoPair THEN [kind |-> "None"]
             ELSE LET short_det == short_detections[match[1]]
                      full_det == full_detections[match[2]]
                      short_score == detection_score(short_det)
                      full_score == detection_score(full_det)
                  IN  [kind |-> "FaceDetection",
                       bbox |-> average_bounding_boxes(relative_bbox_tuple(short_det),
                                                       relative_bbox_tuple(full_det)),
                       confidence |-> IF RatLess(full_score, short_score)
                                      THEN full_score ELSE short_score]

\* Bounds of the detection runs: boxes are BoxSide wide and high, at
\* xmin 0..MaxBoxX; each model reports at most MaxDetections faces.
MaxBoxX == 2
BoxSide == 2
MaxDetections == 2

ShortDetections == {Detection(x, 0, BoxSide, BoxSide, s) : x \in 0..MaxBoxX, s \in {Rat(1, 2), Rat(9, 10)}}
FullDetections == {Detection(x, 0, BoxSide, BoxSide, Rat(7, 10)) : x \in 0..MaxBoxX}
DetectionLists(S) == UNION {[1..n -> S] : n \in 0..MaxDetections}
IouThresholds == {Rat(3, 10), Rat(1, 3), Rat(1, 2)}

\* find_unique_best_pair(primary, secondary, min_iou), called on its own
FindUniqueBestPair ==
    /\ detPair = Nothing
    /\ \E t \in IouThresholds :
        /\ detMinIou' = t
        /\ detPair' = Some(find_unique_best_pair(detPrimary, detSecondary, t))
    /\ UNCHANGED <<detPrimary, detSecondary, detFace, DetectOthers>>

\* detection_service.detect_face(image): the short-range model reports
\* detPrimary, the full-range model detSecondary
DetectFace ==
    /\ detFace = Nothing
    /\ detFace' = Some(detect_face(detPrimary, detSecondary))
    /\ UNCHANGED <<detPrimary, detSecondary, detMinIou, detPair, DetectOthers>>

(***************************************************************************)
(* services/storage_manager.py: EnhancedStorageManager.save_output         *)
(*                                                                         *)
(* The output tree is two maps from path strings: the .png files to their  *)
(* content and the .meta.json sidecars to their fields.                    *)
(***************************************************************************)
DuplicateHandling == {"overwrite", "suffix", "skip"}

\* sanitize_unicode_filename on the two spellings of the employee name used
\* below: neither has an extension, control characters or surrounding
\* blanks, and '/' is one of the characters replaced by '_'.
sanitize_unicode_filename(filename) ==
    CASE filename = "Ann_Lee" -> "Ann_Lee"
      [] filename = "Ann/Lee" -> "Ann_Lee"

\* datetime.now().strftime("%Y%m%d") on day d of November 2026
Timestamp(d) == "202611" \o (IF d < 10 THEN "0" ELSE "") \o ToString(d)

\* output_dir / base_filename, without the extension
OutputStem(employee_name, preset_name, today) ==
    LET employee_dir == sanitize_unicode_filename(employee_name)
    IN  "data/output/" \o employee_dir \o "/"
            \o employee_dir \o "_" \o preset_name \o "_" \o Timestamp(today)

Extension == ".png"

\* output_dir / f"{base_filename}_{counter}{extension}"
SuffixedPath(stem, counter) == stem \o "_" \o ToString(counter) \o Extension

\* The SUFFIX loop entered without looking whether the path is taken.
NextFreePath_First(files, stem, counter) == SuffixedPath(stem, counter)

\* The SUFFIX loop: the first of stem_counter, stem_counter+1, ... not there.
RECURSIVE NextFreePath(_, _, _)
NextFreePath(files, stem, counter) ==
    IF SuffixedPath(stem, counter) \in DOMAIN files
    THEN NextFreePath(files, stem, counter + 1)
    ELSE SuffixedPath(stem, counter)

\* file_path.with_suffix('.meta.json') of stem.png or stem_counter.png
MetaPath(file_path) == SubSeq(file_path, 1, Len(file_path) - Len(Extension)) \o ".meta.json"

\* save_output: the tree after the call, the path returned, and whether the
\* file and its sidecar were written.
save_output(fs, content, employee_name, preset_name, original_file_id, duplicate_handling, today) ==
    LET stem == OutputStem(employee_name, preset_name, today)
        first_path == stem \o Extension
        exists == first_path \in DOMAIN fs.files
        file_path == IF exists /\ duplicate_handling = "suffix"
                     THEN NextFreePath(fs.files, stem, 1)
                     ELSE first_path
    IN  IF exists /\ duplicate_handling = "skip"
        THEN [files |-> fs.files, metas |-> fs.metas, path |-> first_path, written |-> FALSE]
        ELSE [files |-> DictSet(fs.files, file_path, content),
              metas |-> DictSet(fs.metas, MetaPath(file_path),
                                [original_file_id |-> original_file_id,
                                 employee_name |-> employee_name,
                                 preset_name |-> preset_name,
                                 file_size |-> content.size]),
              path |-> file_path,
              written |-> TRUE]

\* Bounds of the storage runs.
MaxSaves == 4
MaxDay == 2
MaxOldCounter == 2

Employees == {"Ann/Lee"}
OutputPresets == {"headshot"}
OldContent == [id |-> 0, size |-> 1]
OldMeta ==
    [original_file_id |-> "old", employee_name |-> "Ann_Lee", preset_name |-> "headshot", file_size |-> 1]

\* Output files of day 1 left by earlier runs: any of stem.png, stem_1.png, ...
OldPaths ==
    LET stem == OutputStem("Ann_Lee", "headshot", 1)
    IN  {stem \o Extension} \cup {SuffixedPath(stem, c) : c \in 1..MaxOldCounter}

OldTrees ==
    {[files |-> [p \in S |-> OldContent],
      metas |-> [mp \in {MetaPath(p) : p \in S} |-> OldMeta]] : S \in SUBSET OldPaths}

\* await storage_manager.save_output(content, employee_name, preset_name,
\* original_file_id, duplicate_handling); the n-th call saves content n.
SaveOutput ==
    /\ Len(stCalls) < MaxSaves
    /\ \E e \in Employees, p \in OutputPresets, dh \in DuplicateHandling :
        LET n == Len(stCalls) + 1
            r == save_output(stTree, [id |-> n, size |-> n], e, p, "file123", dh, stToday)
        IN  /\ stTree' = [files |-> r.files, metas |-> r.metas]
            /\ stCalls' = Append(stCalls, [employee_name |-> e, preset_name |-> p, today |-> stToday,
                                           duplicate_handling |-> dh, path |-> r.path,
                                           written |-> r.written])
    /\ UNCHANGED <<stToday, StorageOthers>>

\* Midnight passes.
NextDay ==
    /\ stToday < MaxDay
    /\ stToday' = stToday + 1
    /\ UNCHANGED <<stTree, stCalls, StorageOthers>>

(***************************************************************************)
(* utils/error_handlers.py: CircuitBreaker                                 *)
(*                                                                         *)
(* call() awaits the wrapped function, so other calls may enter while one  *)
(* is in flight: entering a call and the function's outcome are separate   *)
(* steps. Time is in whole seconds.                                        *)
(***************************************************************************)
\* CircuitBreaker.__init__
CircuitBreaker(failure_threshold, recovery_timeout) ==
    [failure_threshold |-> failure_threshold,
     recovery_timeout |-> recovery_timeout,
     failure_count |-> 0,
     last_failure_time |-> Nothing,
     state |-> "closed"]

\* _should_attempt_reset at time now
_should_attempt_reset(cb, now) ==
    IF cb.last_failure_time = Nothing THEN FALSE
    ELSE now >= ValueOf(cb.last_failure_time) + cb.recovery_timeout

\* _on_success
_on_success(cb) == [cb EXCEPT !.failure_count = 0, !.state = "closed"]

\* _on_failure opening only above the threshold.
_on_failure_Late(cb, now) ==
    [cb EXCEPT !.failure_count = cb.failure_count + 1,
               !.last_failure_time = Some(now),
               !.state = IF cb.failure_count + 1 > cb.failure_threshold THEN "open" ELSE @]

\* _on_failure at time now
_on_failure(cb, now) ==
    [cb EXCEPT !.failure_count = cb.failure_count + 1,
               !.last_failure_time = Some(now),
               !.state = IF cb.failure_count + 1 >= cb.failure_threshold THEN "open" ELSE @]

\* call() up to the try: whether ProcessingError is raised, and the breaker
\* with which the wrapped function is entered otherwise.
call_enter(cb, now) ==
    IF cb.state = "open"
    THEN IF _should_attempt_reset(cb, now)
         THEN [raised |-> FALSE, breaker |-> [cb EXCEPT !.state = "half-open"]]
         ELSE [raised |-> TRUE, breaker |-> cb]
    ELSE [raised |-> FALSE, breaker |-> cb]

\* Bounds of the circuit breaker runs.
MaxThreshold == 2
RecoveryTimeout == 2
MaxNow == 3
MaxBreakerCalls == 4
MaxInFlight == 2

NoEvent == [n |-> 0, op |-> "none", from |-> "closed"]
Event(op) == [n |-> cbLast.n + 1, op |-> op, from |-> cbBreaker.state]

\* await breaker.call(func): the state check, and the function entered
CallEnter ==
    /\ cbCalls < MaxBreakerCalls
    /\ LET r == call_enter(cbBreaker, cbNow)
       IN  IF r.raised
           THEN /\ cbLast' = Event("ProcessingError")
                /\ cbRejected' = cbRejected + 1
                /\ UNCHANGED <<cbBreaker, cbInFlight>>
           ELSE /\ cbInFlight < MaxInFlight
                /\ cbBreaker' = r.breaker
                /\ cbInFlight' = cbInFlight + 1
                /\ cbLast' = Event("enter")
                /\ UNCHANGED cbRejected
    /\ cbCalls' = cbCalls + 1
    /\ UNCHANGED <<cbNow, cbConsecutive, BreakerOthers>>

\* The wrapped function returns: _on_success()
FuncReturns ==
    /\ cbInFlight > 0
    /\ cbBreaker' = _on_success(cbBreaker)
    /\ cbInFlight' = cbInFlight - 1
    /\ cbConsecutive' = 0
    /\ cbLast' = Event("return")
    /\ UNCHANGED <<cbNow, cbCalls, cbRejected, BreakerOthers>>

\* The wrapped function raises expected_exception: _on_failure(), re-raised
FuncRaisesExpected ==
    /\ cbInFlight > 0
    /\ cbBreaker' = _on_failure(cbBreaker, cbNow)
    /\ cbInFlight' = cbInFlight - 1
    /\ cbConsecutive' = cbConsecutive + 1
    /\ cbLast' = Event("expected_exception")
    /\ UNCHANGED <<cbNow, cbCalls, cbRejected, BreakerOthers>>

\* The wrapped function raises something that is not an expected_exception:
\* it passes through call() and neither handler runs.
FuncRaisesOther ==
    /\ cbInFlight > 0
    /\ cbInFlight' = cbInFlight - 1
    /\ cbConsecutive' = 0
    /\ cbLast' = Event("other_exception")
    /\ UNCHANGED <<cbBreaker, cbNow, cbCalls, cbRejected, BreakerOthers>>

\* A second passes.
Tick ==
    /\ cbNow < MaxNow
    /\ cbNow' = cbNow + 1
    /\ UNCHANGED <<cbBreaker, cbInFlight, cbCalls, cbRejected, cbConsecutive, cbLast, BreakerOthers>>

(***************************************************************************)
(* services/processing_queue.py: ProcessingJob, ProcessingQueueService     *)
(*                                                                         *)
(* Job ids are 1, 2, ... in the order of the add_job calls. A worker task  *)
(* is [pc, job]: "get" awaiting queue.get(), "got" resumed with a job not  *)
(* yet passed to _process_job, "processing" inside _process_job at one of  *)
(* its awaits, "cancelled" or "returned" when the task has ended.          *)
(* Times are not followed by value: a field assigned from datetime.utcnow() *)
(* holds Some(UtcNow), a processing_time Some(Elapsed).                    *)
(***************************************************************************)
UtcNow == "utcnow"
Elapsed == "total_seconds"

\* ProcessingJob.__init__
ProcessingJob(file_id) ==
    [file_id |-> file_id,
     status |-> "queued",
     created_at |-> UtcNow,
     started_at |-> Nothing,
     completed_at |-> Nothing,
     output_path |-> Nothing,
     error |-> Nothing,
     processing_time |-> Nothing]

\* _process_job, the first two statements
job_started(job) == [job EXCEPT !.status = "processing", !.started_at = Some(UtcNow)]

\* _process_job's completion that leaves processing_time unset.
job_completed_NoTime(job, output_path) ==
    [job EXCEPT !.output_path = Some(output_path),
                !.status = "completed",
                !.completed_at = Some(UtcNow)]

\* _process_job, the four statements after save_output has returned
job_completed(job, output_path) ==
    [job EXCEPT !.output_path = Some(output_path),
                !.status = "completed",
                !.completed_at = Some(UtcNow),
                !.processing_time = Some(Elapsed)]

\* _process_job, the except Exception branch with str(e) = message
job_failed(job, message) ==
    [job EXCEPT !.status = "failed",
                !.error = Some(message),
                !.completed_at = Some(UtcNow),
                !.processing_time = IF job.started_at # Nothing
                                    THEN Some(Elapsed) ELSE @]

\* asyncio.Queue.get taking the newest item.
queue_get_Newest(queue) ==
    [item |-> queue[Len(queue)], rest |-> SubSeq(queue, 1, Len(queue) - 1)]

\* asyncio.Queue.get on a non-empty queue: the oldest item
queue_get(queue) == [item |-> Head(queue), rest |-> Tail(queue)]

\* storage_service.save_output(encoded, file_id, suffix): str(output_dir / f"{file_id}{suffix}.jpg")
OutputPathOf(job_id) == "outputs/f" \o ToString(job_id) \o "_headshot_" \o ToString(job_id) \o ".jpg"

\* Bounds of the queue runs.
MaxJobs == 2
MaxWorkers == 2

\* str(e) of the exceptions drawn: get_upload found no file; an exception
\* raised without a message.
ErrorMessages == {"File not found", ""}

WorkerAt(pc, job) == [pc |-> pc, job |-> job]
NoJob == 0
Tasks(pcs) == {w \in DOMAIN qWorkers : qWorkers[w].pc \in pcs}

\* start_workers(num_workers) while not running; it returns at once when
\* is_running is set. (A start while stop_workers still waits for its
\* workers is left out.)
StartWorkers ==
    /\ ~qRunning
    /\ qWorkers = <<>>
    /\ \E num_workers \in 1..MaxWorkers :
          qWorkers' = [w \in 1..num_workers |-> WorkerAt("get", NoJob)]
    /\ qRunning' = TRUE
    /\ UNCHANGED <<qJobs, qQueue, qTaken, qEverStopped, QueueOthers>>

\* add_job(file_id, preset, output_format)
AddJob ==
    /\ Len(qJobs) < MaxJobs
    /\ qJobs' = Append(qJobs, ProcessingJob(Len(qJobs) + 1))
    /\ qQueue' = Append(qQueue, Len(qJobs) + 1)
    /\ UNCHANGED <<qWorkers, qRunning, qTaken, qEverStopped, QueueOthers>>

\* _process_worker: wait_for(self.queue.get(), timeout=1.0) has a job
WorkerGet(w) ==
    /\ w \in Tasks({"get"})
    /\ qRunning
    /\ qQueue # <<>>
    /\ LET got == queue_get(qQueue)
       IN  /\ qQueue' = got.rest
           /\ qWorkers' = [qWorkers EXCEPT ![w] = WorkerAt("got", got.item)]
           /\ qTaken' = Append(qTaken, [job |-> got.item, worker |-> w])
    /\ UNCHANGED <<qJobs, qRunning, qEverStopped, QueueOthers>>

\* _process_worker resumes and enters _process_job up to its first await
WorkerBegin(w) ==
    /\ w \in Tasks({"got"})
    /\ qJobs' = [qJobs EXCEPT ![qWorkers[w].job] = job_started(@)]
    /\ qWorkers' = [qWorkers EXCEPT ![w].pc = "processing"]
    /\ UNCHANGED <<qQueue, qRunning, qTaken, qEverStopped, QueueOthers>>

\* _process_job runs to its end; the worker is back at the top of its loop
JobCompletes(w) ==
    /\ w \in Tasks({"processing"})
    /\ qJobs' = [qJobs EXCEPT ![qWorkers[w].job] =
                                job_completed(@, OutputPathOf(qWorkers[w].job))]
    /\ qWorkers' = [qWorkers EXCEPT ![w] = WorkerAt("get", NoJob)]
    /\ UNCHANGED <<qQueue, qRunning, qTaken, qEverStopped, QueueOthers>>

\* An Exception inside _process_job; the worker is back at the top of its loop
JobFails(w) ==
    /\ w \in Tasks({"processing"})
    /\ \E message \in ErrorMessages :
          qJobs' = [qJobs EXCEPT ![qWorkers[w].job] = job_failed(@, message)]
    /\ qWorkers' = [qWorkers EXCEPT ![w] = WorkerAt("get", NoJob)]
    /\ UNCHANGED <<qQueue, qRunning, qTaken, qEverStopped, QueueOthers>>

\* _process_worker finds is_running cleared at the top of its loop
WorkerReturns(w) ==
    /\ w \in Tasks({"get"})
    /\ ~qRunning
    /\ qWorkers' = [qWorkers EXCEPT ![w].pc = "returned"]
    /\ UNCHANGED <<qJobs, qQueue, qRunning, qTaken, qEverStopped, QueueOthers>>

\* stop_workers up to its await: is_running cleared, every worker cancelled.
\* CancelledError is not an Exception: a worker inside _process_job ends
\* with its job left as it is. A worker whose queue.get() has just given it
\* a job either ends the same way or, where wait_for returns the result it
\* already has, goes on with that job.
StopWorkers ==
    /\ qRunning
    /\ qRunning' = FALSE
    /\ qEverStopped' = TRUE
    /\ \E keep \in SUBSET Tasks({"got"}) :
          qWorkers' = [w \in DOMAIN qWorkers |->
                          IF w \in keep \/ qWorkers[w].pc \in {"cancelled", "returned"}
                          THEN qWorkers[w]
                          ELSE [qWorkers[w] EXCEPT !.pc = "cancelled"]]
    /\ UNCHANGED <<qJobs, qQueue, qTaken, QueueOthers>>

\* stop_workers after gather: every worker task has ended; workers.clear()
StopWorkersDone ==
    /\ ~qRunning
    /\ qWorkers # <<>>
    /\ Tasks({"cancelled", "returned"}) = DOMAIN qWorkers
    /\ qWorkers' = <<>>
    /\ UNCHANGED <<qJobs, qQueue, qRunning, qTaken, qEverStopped, QueueOthers>>

WorkerStep(w) == WorkerGet(w) \/ WorkerBegin(w) \/ JobCompletes(w) \/ JobFails(w) \/ WorkerReturns(w)

\* The event loop runs every worker that can run, and every awaited call of
\* _process_job returns or raises.
QueueFairness == \A w \in 1..MaxWorkers : WF_vars(WorkerStep(w))

(***************************************************************************)
(* main.py lifespan and api/endpoints/upload.py: the two queue services    *)
(*                                                                         *)
(* services/processing_queue.py creates the module-level instance          *)
(* processing_queue_service, which lifespan starts and stops. upload.py    *)
(* creates its own ProcessingQueueService() and hands its add_job to the   *)
(* background tasks. A service is [jobs, queue, workers, is_running].      *)
(***************************************************************************)
QueueServices == {"processing_queue_service", "upload.processing_queue"}

\* ProcessingQueueService.__init__
NewQueueService == [jobs |-> <<>>, queue |-> <<>>, workers |-> <<>>, is_running |-> FALSE]

\* start_workers(num_workers) on one service
start_workers(svc, num_workers) ==
    IF svc.is_running THEN svc
    ELSE [svc EXCEPT !.is_running = TRUE,
                     !.workers = svc.workers \o [w \in 1..num_workers |-> WorkerAt("get", NoJob)]]

\* stop_workers on one service whose workers all wait in queue.get() or are
\* inside _process_job: all are cancelled, then the list is cleared
stop_workers(svc) == [svc EXCEPT !.is_running = FALSE, !.workers = <<>>]

\* add_job on one service
add_job(svc, file_id) ==
    [svc EXCEPT !.jobs = Append(svc.jobs, ProcessingJob(file_id)),
                !.queue = Append(svc.queue, Len(svc.jobs) + 1)]

\* One step of worker w of a service: a job taken from the queue (or the
\* one-second timeout, which changes nothing), _process_job entered, and
\* _process_job ended as outcome says.
worker_step(svc, w, outcome) ==
    LET worker == svc.workers[w]
    IN  CASE worker.pc = "get" /\ svc.queue # <<>> ->
                [svc EXCEPT !.queue = queue_get(svc.queue).rest,
                            !.workers[w] = WorkerAt("got", queue_get(svc.queue).item)]
          [] worker.pc = "got" ->
                [svc EXCEPT !.jobs[worker.job] = job_started(@),
                            !.workers[w].pc = "processing"]
          [] worker.pc = "processing" /\ outcome = "completed" ->
                [svc EXCEPT !.jobs[worker.job] = job_completed(@, OutputPathOf(worker.job)),
                            !.workers[w] = WorkerAt("get", NoJob)]
          [] worker.pc = "processing" /\ outcome # "completed" ->
                [svc EXCEPT !.jobs[worker.job] = job_failed(@, outcome),
                            !.workers[w] = WorkerAt("get", NoJob)]
          [] OTHER -> svc

\* Bounds of the application runs.
MaxUploads == 3
StartupWorkers == 2

\* What upload_single_image can meet: a file refused by the validation, an
\* image in which detector.detect finds no face, one in which it finds a
\* face, and detector.detect raising.
UploadOutcomes == {"rejected", "no_faces", "ready", "detect_raises"}

\* lifespan up to its yield
Startup ==
    /\ appPhase = "created"
    /\ appPhase' = "running"
    /\ appServices' = [appServices EXCEPT !["processing_queue_service"] =
                                             start_workers(@, StartupWorkers)]
    /\ UNCHANGED <<appUploads, appTasks, appLast, AppOthers>>

\* POST /upload/single: the response, and the background task added when a
\* face was detected
UploadSingle ==
    /\ appPhase = "running"
    /\ appUploads < MaxUploads
    /\ \E outcome \in UploadOutcomes :
        LET file_id == appUploads + 1
        IN  /\ appLast' = [file_id |-> file_id,
                           status |-> CASE outcome = "rejected" -> 400
                                        [] outcome = "detect_raises" -> 500
                                        [] OTHER -> 200,
                           body |-> outcome]
            /\ appTasks' = IF outcome = "ready"
                           THEN Append(appTasks, [service |-> "upload.processing_queue",
                                                  file_id |-> file_id])
                           ELSE appTasks
    /\ appUploads' = appUploads + 1
    /\ UNCHANGED <<appPhase, appServices, AppOthers>>

\* The response has been sent: the background task runs add_job
RunBackgroundTask ==
    /\ appTasks # <<>>
    /\ appServices' = [appServices EXCEPT ![Head(appTasks).service] =
                                             add_job(@, Head(appTasks).file_id)]
    /\ appTasks' = Tail(appTasks)
    /\ UNCHANGED <<appPhase, appUploads, appLast, AppOthers>>

\* A worker task of either service runs
AppWorkerStep(s, w) ==
    /\ w \in DOMAIN appServices[s].workers
    /\ appServices[s].is_running
    /\ \E outcome \in {"completed"} \cup ErrorMessages :
          appServices' = [appServices EXCEPT ![s] = worker_step(@, w, outcome)]
    /\ UNCHANGED <<appPhase, appUploads, appTasks, appLast, AppOthers>>

\* lifespan after its yield
Shutdown ==
    /\ appPhase = "running"
    /\ appPhase' = "stopped"
    /\ appServices' = [appServices EXCEPT !["processing_queue_service"] = stop_workers(@)]
    /\ UNCHANGED <<appUploads, appTasks, appLast, AppOthers>>

\* The event loop runs the worker tasks and the background tasks.
AppFairness ==
    /\ WF_vars(RunBackgroundTask)
    /\ \A s \in QueueServices : \A w \in 1..StartupWorkers : WF_vars(AppWorkerStep(s, w))

(***************************************************************************)
(* api/endpoints/process.py: export_image, single-preset mode              *)
(***************************************************************************)
\* preset_map of export_image
preset_map == {"headshot", "avatar", "website", "full_body"}

\* project_sizes of export_image
project_sizes ==
    [p \in {"proj_header", "proj_thumbnail", "proj_description"} |->
        CASE p = "proj_header" -> <<2560, 1440>>
          [] p = "proj_thumbnail" -> <<500, 500>>
          [] OTHER -> <<3000, 2000>>]

\* The crop_box of a request: absent (None), an empty dict, or a dict with
\* the four keys. Python's truth test takes the first two as false.
CropBoxes == {"None", "empty", "box"}

Truthy(crop_box) == crop_box = "box"

\* The media type chosen from request.format
ContentType(format) ==
    CASE format = "png" -> "image/png"
      [] format = "webp" -> "image/webp"
      [] OTHER -> "image/jpeg"

HTTPException(status_code, detail) ==
    [status_code |-> status_code, detail |-> detail, media_type |-> "application/json",
     processed_by |-> "none"]

StreamingResponse(processed_by, format) ==
    [status_code |-> 200, detail |-> "", media_type |-> ContentType(format),
     processed_by |-> processed_by]

\* export_image for a request with request.preset set. upload is whether
\* storage.get_upload finds the file, detection what detector.detect gives
\* ("face", "none", or "raises" for an exception, which FastAPI answers
\* with 500).
export_image(upload, detection, preset, crop_box, format) ==
    IF ~upload THEN HTTPException(404, "Upload not found")
    ELSE IF detection = "raises" THEN HTTPException(500, "Internal Server Error")
    ELSE LET face == IF detection = "face" THEN Some("FaceBox") ELSE Nothing
         IN  IF preset \in preset_map
             THEN IF face = Nothing
                  THEN HTTPException(400, "No faces detected in image")
                  ELSE IF Truthy(crop_box)
                       THEN StreamingResponse("process_with_crop_box", format)
                       ELSE StreamingResponse("process_preset", format)
             ELSE IF preset \notin DOMAIN project_sizes
                  THEN HTTPException(400, "Invalid preset")
                  ELSE IF ~Truthy(crop_box)
                       THEN HTTPException(400, "crop_box is required for project presets")
                       ELSE StreamingResponse("process_with_custom_output", format)

\* Bound of the calls of one run.
MaxExportCalls == 2

ExportPresets == preset_map \cup DOMAIN project_sizes \cup {"poster"}

ExportFormats == {"jpeg", "png", "webp"}

NoExport ==
    [upload |-> FALSE, detection |-> "none", preset |-> "", crop_box |-> "None",
     format |-> "", response |-> HTTPException(0, "")]

\* POST /process/{upload_id}/export with a single preset
ExportImage ==
    /\ exCalls < MaxExportCalls
    /\ \E upload \in BOOLEAN, detection \in {"face", "none", "raises"},
          preset \in ExportPresets, crop_box \in CropBoxes, format \in ExportFormats :
          exLast' = [upload |-> upload, detection |-> detection, preset |-> preset,
                     crop_box |-> crop_box, format |-> format,
                     response |-> export_image(upload, detection, preset, crop_box, format)]
    /\ exCalls' = exCalls + 1
    /\ UNCHANGED ExportOthers

(***************************************************************************)
(* api/endpoints/suggestions.py: get_crop_suggestions                      *)
(*                                                                         *)
(* The float arithmetic of crop_from_center is exact rational arithmetic   *)
(* here (a float product such as 200 * 1.15 can fall just below the exact  *)
(* value, and int() then gives one less).                                  *)
(***************************************************************************)
RatMax(p, q) == IF RatLess(p, q) THEN q ELSE p
RatMin(p, q) == IF RatLess(q, p) THEN q ELSE p
RatDiv(p, q) == Rat(p.num * q.den, p.den * q.num)
RatInt(p) == TruncDiv(p.num, p.den)

\* PresetType in declaration order
PresetTypeOrder == <<"headshot", "avatar", "thumbnail", "website", "full_body">>

\* calculate_all_crops
calculate_all_crops(face, image_width, image_height) ==
    [i \in DOMAIN PresetTypeOrder |-> calculate_crop(PresetTypeOrder[i], face, image_width, image_height)]

\* crop_from_center of get_crop_suggestions; roi is Nothing or Some(dict)
crop_from_center(roi, width, height, cx, cy, aspect_w, aspect_h, pad) ==
    LET ar == Rat(aspect_w, aspect_h)
        base_w == IF roi # Nothing THEN RatMul(Rat(ValueOf(roi).width, 1), pad)
                  ELSE Rat(4 * width, 10)
        base_h == IF roi # Nothing THEN RatMul(Rat(ValueOf(roi).height, 1), pad)
                  ELSE Rat(4 * height, 10)
        cand_w0 == RatMax(base_w, RatMul(base_h, ar))
        cand_h0 == RatMax(base_h, RatDiv(cand_w0, ar))
        cand_w == RatMin(cand_w0, Rat(width, 1))
        cand_h == RatMin(cand_h0, Rat(height, 1))
        half(v) == RatDiv(v, Rat(2, 1))
        x == RatInt(RatMax(Rat(0, 1), RatMin(RatSub(Rat(cx, 1), half(cand_w)),
                                             RatSub(Rat(width, 1), cand_w))))
        y == RatInt(RatMax(Rat(0, 1), RatMin(RatSub(Rat(cy, 1), half(cand_h)),
                                             RatSub(Rat(height, 1), cand_h))))
    IN  [x |-> x, y |-> y, width |-> RatInt(cand_w), height |-> RatInt(cand_h),
         confidence |-> IF roi # Nothing THEN ValueOf(roi).score ELSE Rat(0, 1)]

\* The debug loop before the return statement reads face.center_y for every
\* suggestion. It gives "ok", or the exception it raises: face is a local
\* name bound only in the is_employee branch, and a suggestion of height 0
\* divides by zero.
DebugLoop(is_employee, heights) ==
    IF heights = <<>> THEN "ok"
    ELSE IF ~is_employee THEN "UnboundLocalError"
    ELSE IF \E i \in DOMAIN heights : heights[i] = 0 THEN "ZeroDivisionError"
    ELSE "ok"

SuggestionsMessage == "Crop suggestions calculated using MediaPipe detection"

\* get_crop_suggestions. upload: whether storage.get_upload finds the file;
\* detection: Nothing for no face, Some([bbox, confidence]) for a face;
\* roi: what detector.best_object_roi would return.
get_crop_suggestions(upload, detection, roi, width, height) ==
    IF ~upload THEN [kind |-> "HTTPException", status_code |-> 404]
    ELSE
    LET is_employee == detection # Nothing
        bbox == ValueOf(detection).bbox
        face == FaceBox(RatInt(RatMul(bbox[1], Rat(width, 1))),
                        RatInt(RatMul(bbox[2], Rat(height, 1))),
                        RatInt(RatMul(bbox[3], Rat(width, 1))),
                        RatInt(RatMul(bbox[4], Rat(height, 1))))
        crops == calculate_all_crops(face, width, height)
        cx == IF roi # Nothing THEN ValueOf(roi).x + (ValueOf(roi).width \div 2)
              ELSE width \div 2
        cy == IF roi # Nothing THEN ValueOf(roi).y + (ValueOf(roi).height \div 2)
              ELSE height \div 2
        names == IF is_employee THEN PresetTypeOrder
                 ELSE <<"proj_header", "proj_thumbnail", "proj_description">>
        suggestions ==
            IF is_employee
            THEN [i \in DOMAIN PresetTypeOrder |->
                     [x |-> crops[i].x, y |-> crops[i].y, width |-> crops[i].width,
                      height |-> crops[i].height,
                      confidence |-> ValueOf(detection).confidence]]
            ELSE << crop_from_center(roi, width, height, cx, cy, 16, 9, Rat(125, 100)),
                    crop_from_center(roi, width, height, cx, cy, 1, 1, Rat(115, 100)),
                    crop_from_center(roi, width, height, cx, cy, 3, 2, Rat(120, 100)) >>
        raised == DebugLoop(is_employee, [i \in DOMAIN suggestions |-> suggestions[i].height])
    IN  IF raised # "ok" THEN [kind |-> raised, status_code |-> 500]
        ELSE [kind |-> "response", status_code |-> 200,
              image_dimensions |-> [width |-> width, height |-> height],
              face_detection |-> IF is_employee THEN Some(face) ELSE Nothing,
              object_detection |-> IF is_employee THEN Nothing ELSE roi,
              names |-> names,
              crop_suggestions |-> suggestions,
              confidence |-> IF is_employee THEN ValueOf(detection).confidence
                             ELSE IF roi # Nothing THEN ValueOf(roi).score ELSE Rat(0, 1),
              message |-> SuggestionsMessage]

\* Bounds and inputs of the runs.
MaxSuggestCalls == 2
SuggestSizeStep == 400
MaxSuggestSizeSteps == 3

SuggestSizes == {SuggestSizeStep * k : k \in 1..MaxSuggestSizeSteps}

SuggestFaces ==
    {Nothing,
     Some([bbox |-> <<Rat(1, 4), Rat(1, 4), Rat(1, 4), Rat(1, 4)>>, confidence |-> Rat(9, 10)]),
     Some([bbox |-> <<Rat(1, 2), Rat(1, 8), Rat(1, 8), Rat(1, 4)>>, confidence |-> Rat(3, 4)])}

SuggestRois ==
    {Nothing,
     Some([x |-> 40, y |-> 80, width |-> 200, height |-> 100, score |-> Rat(1, 2)]),
     Some([x |-> 0, y |-> 0, width |-> 400, height |-> 400, score |-> Rat(3, 4)])}

NoSuggest ==
    [upload |-> FALSE, detection |-> Nothing, roi |-> Nothing, width |-> 0, height |-> 0,
     response |-> [kind |-> "none", status_code |-> 0]]

\* GET /suggestions/{upload_id}/suggestions
GetCropSuggestions ==
    /\ sgCalls < MaxSuggestCalls
    /\ \E upload \in BOOLEAN, detection \in SuggestFaces, roi \in SuggestRois,
          width \in SuggestSizes, height \in SuggestSizes :
          sgLast' = [upload |-> upload, detection |-> detection, roi |-> roi,
                     width |-> width, height |-> height,
                     response |-> get_crop_suggestions(upload, detection, roi, width, height)]
    /\ sgCalls' = sgCalls + 1
    /\ UNCHANGED SuggestOthers

(***************************************************************************)
(* utils/error_handlers.py: AppError, error_response, handle_errors        *)
(***************************************************************************)
\* AppError.__init__ without details and user_message: user_message is the
\* message. The object has no attribute named message.
AppError(message, code, status_code) ==
    [type |-> "AppError", args |-> message, code |-> code, status_code |-> status_code,
     details |-> "{}", user_message |-> message, timestamp |-> UtcNow]

ProcessingError(message) == AppError(message, "PROCESSING_ERROR", 422)
StorageError(message) == AppError(message, "STORAGE_ERROR", 507)
ValidationError(message) == AppError(message, "VALIDATION_ERROR", 400)
RateLimitError(message) == AppError(message, "RATE_LIMIT_EXCEEDED", 429)

\* Exceptions that are no AppError: type is the class, args the message
Raised(type, args) == [type |-> type, args |-> args]

\* fastapi.HTTPException(status_code, detail)
HTTPError(status_code, detail) ==
    [type |-> "HTTPException", args |-> "", status_code |-> status_code, detail |-> detail]

\* error_response(error) for an AppError
error_response(error) ==
    [kind |-> "JSONResponse", status_code |-> error.status_code,
     content |-> [code |-> error.code, message |-> error.user_message,
                  details |-> error.details, timestamp |-> error.timestamp]]

Returns(value) == [kind |-> "return", value |-> value]
Raises(exception) == [kind |-> "raise", exception |-> exception]

\* Classes caught by `except Exception`
IsException(e) == e.type \notin {"CancelledError", "KeyboardInterrupt"}

\* The logger.warning call of the AppError branches formats e.message
AttributeErrorMessage == Raised("AttributeError", "object has no attribute 'message'")

\* handle_errors(fallback_message, log_errors)(func) called once; outcome is
\* what func does: Returns(v) or Raises(e). The logging of the AppError
\* branch with log_errors unset, which skips the read of e.message.
wrapper_Quiet(is_async, fallback_message, log_errors, outcome) ==
    IF outcome.kind = "return" THEN outcome
    ELSE LET e == outcome.exception
         IN  IF e.type = "AppError"
             THEN IF is_async THEN error_response(e)
                  ELSE Raises(HTTPError(e.status_code,
                                        [code |-> e.code, message |-> e.user_message]))
             ELSE IF e.type = "HTTPException" THEN Raises(e)
             ELSE IF IsException(e)
             THEN IF is_async
                  THEN error_response(
                          [AppError(IF e.args # "" THEN e.args ELSE fallback_message,
                                    "APP_ERROR", 500)
                           EXCEPT !.user_message = fallback_message])
                  ELSE Raises(HTTPError(500, [code |-> "INTERNAL_ERROR",
                                              message |-> fallback_message]))
             ELSE Raises(e)

\* async_wrapper / sync_wrapper of handle_errors
wrapper(is_async, fallback_message, log_errors, outcome) ==
    IF outcome.kind = "raise" /\ outcome.exception.type = "AppError" /\ log_errors
    THEN Raises(AttributeErrorMessage)
    ELSE wrapper_Quiet(is_async, fallback_message, log_errors, outcome)

\* Bound of the calls of one run.
MaxHandlerCalls == 2

FallbackMessages == {"Operation failed", "Upload failed"}

HandlerOutcomes ==
    {Returns("ok")}
    \cup {Raises(e) : e \in {ProcessingError("bad image"), StorageError("disk full"),
                             ValidationError("bad input"), RateLimitError("Rate limit exceeded"),
                             AppError("boom", "APP_ERROR", 500)}}
    \cup {Raises(HTTPError(404, "not found"))}
    \cup {Raises(Raised(t, a)) : t \in {"KeyError", "ValueError"}, a \in {"", "k"}}
    \cup {Raises(Raised("CancelledError", ""))}

NoHandlerCall ==
    [is_async |-> FALSE, fallback_message |-> "", log_errors |-> FALSE,
     outcome |-> Returns("none"), result |-> Returns("none")]

\* One call of a handler decorated with handle_errors
CallHandler ==
    /\ heCalls < MaxHandlerCalls
    /\ \E is_async \in BOOLEAN, fallback_message \in FallbackMessages, log_errors \in BOOLEAN,
          outcome \in HandlerOutcomes :
          heLast' = [is_async |-> is_async, fallback_message |-> fallback_message,
                     log_errors |-> log_errors, outcome |-> outcome,
                     result |-> wrapper(is_async, fallback_message, log_errors, outcome)]
    /\ heCalls' = heCalls + 1
    /\ UNCHANGED HandlerOthers

(***************************************************************************)
(* services/heuristics: HeuristicsManager.learn_from_adjustment and        *)
(* apply_heuristics, HeuristicsDB.add_sample, get_samples and              *)
(* cleanup_old_samples                                                     *)
(*                                                                         *)
(* The manager is [buckets, db, samples]: the in-memory EMA buckets, the   *)
(* params table and the samples table. Time is counted in clock units;     *)
(* SQLite's CURRENT_TIMESTAMP keeps whole seconds, julianday('now') keeps  *)
(* the fraction.                                                           *)
(***************************************************************************)
UnitsPerSecond == 2
SecondsPerDay == 86400

\* CURRENT_TIMESTAMP at clock value now
CURRENT_TIMESTAMP(now) == now - (now % UnitsPerSecond)

\* HeuristicsDB.add_sample: the new samples table
add_sample(samples, aspect_class, zoom_level, now) ==
    Append(samples, [aspect_class |-> aspect_class, zoom_level |-> zoom_level,
                     created_at |-> CURRENT_TIMESTAMP(now)])

\* HeuristicsDB.get_samples(aspect_class, zoom_level, limit): the rows of
\* the bucket, at most limit of them
get_samples(samples, aspect_class, zoom_level, limit) ==
    LET rows == SelectSeq(samples, LAMBDA s : s.aspect_class = aspect_class
                                              /\ s.zoom_level = zoom_level)
    IN  SubSeq(rows, 1, Min(Len(rows), limit))

\* The rows cleanup_old_samples(days_to_keep) deletes at clock value now:
\* julianday('now') - julianday(created_at) > days_to_keep
IsOld(sample, days_to_keep, now) ==
    now - sample.created_at > days_to_keep * SecondsPerDay * UnitsPerSecond

\* HeuristicsDB.cleanup_old_samples: the new table and cursor.rowcount
cleanup_old_samples(samples, days_to_keep, now) ==
    [samples |-> SelectSeq(samples, LAMBDA s : ~IsOld(s, days_to_keep, now)),
     rowcount |-> Len(SelectSeq(samples, LAMBDA s : IsOld(s, days_to_keep, now)))]

\* The delta names in the order of the dict calculate_adjustment_deltas builds
DeltaOrder == <<"center_x_offset", "width_scale">>

\* The steps of learn_from_adjustment that can raise; "none" for a call in
\* which none does. update_ema_parameter_i is the database update of the
\* i-th delta, whose transaction is rolled back.
FailurePoints ==
    {"none", "extract_features", "calculate_adjustment_deltas",
     "update_ema_parameter_1", "update_ema_parameter_2",
     "calculate_image_hash", "add_sample"}

\* The loop over deltas.items() from its i-th turn on; it stops at the turn
\* whose database update raises.
RECURSIVE UpdateEmaLoop(_, _, _, _, _, _, _)
UpdateEmaLoop(mgr, alpha, aspect_class, zoom_level, deltas, i, raises) ==
    IF i > Len(DeltaOrder) THEN mgr
    ELSE LET name == DeltaOrder[i]
             bucket_key == create_bucket_key(aspect_class, zoom_level)
             in_memory == [mgr EXCEPT !.buckets =
                              update_bucket(mgr.buckets, alpha, bucket_key, name, deltas[name])]
         IN  IF (i = 1 /\ raises = "update_ema_parameter_1")
                \/ (i = 2 /\ raises = "update_ema_parameter_2")
             THEN in_memory
             ELSE UpdateEmaLoop(
                     [in_memory EXCEPT !.db = update_ema_parameter(mgr.db, aspect_class,
                                                  zoom_level, name, deltas[name], alpha)],
                     alpha, aspect_class, zoom_level, deltas, i + 1, raises)

\* HeuristicsManager.learn_from_adjustment for an image of the given aspect
\* class without faces (zoom level 'medium'); raises names the step that
\* raises. The except clause logs and the call returns None either way.
learn_from_adjustment(mgr, alpha, aspect_class, deltas, raises, now) ==
    IF raises \in {"extract_features", "calculate_adjustment_deltas"} THEN mgr
    ELSE LET zoom_level == "medium"
             updated == UpdateEmaLoop(mgr, alpha, aspect_class, zoom_level, deltas, 1, raises)
         IN  IF raises \in {"update_ema_parameter_1", "update_ema_parameter_2",
                            "calculate_image_hash", "add_sample"}
             THEN updated
             ELSE [updated EXCEPT !.samples = add_sample(@, aspect_class, zoom_level, now)]

\* The image sizes of the two aspect classes
ImageDimensions(aspect_class) ==
    IF aspect_class = "portrait" THEN <<1000, 1500>> ELSE <<1500, 1000>>

BaseCrop == [x |-> 100, y |-> 200, width |-> 800, height |-> 800]

DictGet(d, k, default) == IF k \in DOMAIN d THEN d[k] ELSE default

\* EMACalculator.apply_heuristics(base_crop, bucket_key, image_dimensions)
ema_apply_heuristics(bkts, base_crop, bucket_key, image_dimensions) ==
    IF bucket_key \notin DOMAIN bkts THEN base_crop
    ELSE
    LET width == image_dimensions[1]
        height == image_dimensions[2]
        params == bkts[bucket_key]
        center_x_offset == RatMul(DictGet(params, "center_x_offset", Rat(0, 1)), Rat(width, 1))
        center_y_offset == RatMul(DictGet(params, "center_y_offset", Rat(0, 1)), Rat(height, 1))
        width_scale == DictGet(params, "width_scale", RatOne)
        height_scale == DictGet(params, "height_scale", RatOne)
        adjusted_width == RatInt(RatMul(Rat(base_crop.width, 1), width_scale))
        adjusted_height == RatInt(RatMul(Rat(base_crop.height, 1), height_scale))
        new_center_x == RatAdd(Rat(2 * base_crop.x + base_crop.width, 2), center_x_offset)
        new_center_y == RatAdd(Rat(2 * base_crop.y + base_crop.height, 2), center_y_offset)
        adjusted_x0 == RatInt(RatSub(new_center_x, Rat(adjusted_width, 2)))
        adjusted_y0 == RatInt(RatSub(new_center_y, Rat(adjusted_height, 2)))
        adjusted_x == Max(0, Min(adjusted_x0, width - adjusted_width))
        adjusted_y == Max(0, Min(adjusted_y0, height - adjusted_height))
    IN  [x |-> adjusted_x, y |-> adjusted_y,
         width |-> Min(adjusted_width, width - adjusted_x),
         height |-> Min(adjusted_height, height - adjusted_y)]

\* get_samples(limit=1000) of apply_heuristics
SampleLimit == 1000

\* HeuristicsManager.apply_heuristics with the test on params left out.
apply_heuristics_NoParams(mgr, min_samples_for_confidence, aspect_class, base_crop, confidence_threshold, raises) ==
    IF raises
    THEN [crop |-> base_crop, confidence |-> Rat(0, 1), aspect_class |-> "unknown",
          zoom_level |-> "medium", adjustments_applied |-> FALSE, sample_count |-> 0]
    ELSE
    LET zoom_level == "medium"
        sample_count == IF get_samples(mgr.samples, aspect_class, zoom_level, 1) # <<>>
                        THEN Len(get_samples(mgr.samples, aspect_class, zoom_level, SampleLimit))
                        ELSE 0
        confidence == RatMin(RatOne, Rat(sample_count, min_samples_for_confidence))
        applied == ~RatLess(confidence, confidence_threshold)
    IN  [crop |-> IF applied
                  THEN ema_apply_heuristics(mgr.buckets, base_crop,
                                            create_bucket_key(aspect_class, zoom_level),
                                            ImageDimensions(aspect_class))
                  ELSE base_crop,
         confidence |-> confidence, aspect_class |-> aspect_class, zoom_level |-> zoom_level,
         adjustments_applied |-> applied, sample_count |-> sample_count]

\* HeuristicsManager.apply_heuristics for an image of the given aspect class
\* without faces; raises says whether a step of the try block raises.
apply_heuristics(mgr, min_samples_for_confidence, aspect_class, base_crop, confidence_threshold, raises) ==
    IF raises
    THEN [crop |-> base_crop, confidence |-> Rat(0, 1), aspect_class |-> "unknown",
          zoom_level |-> "medium", adjustments_applied |-> FALSE, sample_count |-> 0]
    ELSE
    LET zoom_level == "medium"
        params == get_ema_parameters(mgr.db, aspect_class, zoom_level)
        sample_count == IF get_samples(mgr.samples, aspect_class, zoom_level, 1) # <<>>
                        THEN Len(get_samples(mgr.samples, aspect_class, zoom_level, SampleLimit))
                        ELSE 0
        confidence == RatMin(RatOne, Rat(sample_count, min_samples_for_confidence))
        applied == ~RatLess(confidence, confidence_threshold) /\ DOMAIN params # {}
    IN  [crop |-> IF applied
                  THEN ema_apply_heuristics(mgr.buckets, base_crop,
                                            create_bucket_key(aspect_class, zoom_level),
                                            ImageDimensions(aspect_class))
                  ELSE base_crop,
         confidence |-> confidence, aspect_class |-> aspect_class, zoom_level |-> zoom_level,
         adjustments_applied |-> applied, sample_count |-> sample_count]

\* Bounds and inputs of the runs.
MaxLearnCalls == 3
MaxLearnClock == 3
MinSamplesChoice == 2

LearnDeltas == {[center_x_offset |-> Rat(1, 10), width_scale |-> Rat(9, 10)]}
ConfidenceThresholds == {Rat(0, 1), Rat(3, 10), Rat(1, 2)}
DaysToKeep == {0, 30}

LearnManager == [buckets |-> EmptyDict, db |-> EmptyDB, samples |-> <<>>]

NoLearnCall == [op |-> "none", before |-> LearnManager]

\* manager.learn_from_adjustment(image, initial_crop, final_crop)
LearnFromAdjustment ==
    /\ lnCalls < MaxLearnCalls
    /\ \E aspect_class \in AspectClasses, deltas \in LearnDeltas, raises \in FailurePoints :
        /\ lnManager' = learn_from_adjustment(lnManager, DefaultAlpha, aspect_class, deltas,
                                              raises, lnClock)
        /\ lnLast' = [op |-> "learn_from_adjustment", before |-> lnManager,
                      raises |-> raises, returned |-> "None"]
    /\ lnCalls' = lnCalls + 1
    /\ UNCHANGED <<lnClock, lnMinSamples, LearnOthers>>

\* manager.apply_heuristics(image, base_crop, confidence_threshold=...)
ApplyHeuristics ==
    /\ lnCalls < MaxLearnCalls
    /\ \E aspect_class \in AspectClasses, confidence_threshold \in ConfidenceThresholds,
          raises \in BOOLEAN :
        lnLast' = [op |-> "apply_heuristics", before |-> lnManager, raises |-> raises,
                   aspect_class |-> aspect_class, confidence_threshold |-> confidence_threshold,
                   returned |-> apply_heuristics(lnManager, lnMinSamples, aspect_class, BaseCrop,
                                                 confidence_threshold, raises)]
    /\ lnCalls' = lnCalls + 1
    /\ UNCHANGED <<lnManager, lnClock, lnMinSamples, LearnOthers>>

\* manager.db.cleanup_old_samples(days_to_keep)
CleanupOldSamples ==
    /\ lnCalls < MaxLearnCalls
    /\ \E days_to_keep \in DaysToKeep :
        /\ lnManager' = [lnManager EXCEPT !.samples =
                            cleanup_old_samples(@, days_to_keep, lnClock).samples]
        /\ lnLast' = [op |-> "cleanup_old_samples", before |-> lnManager,
                      days_to_keep |-> days_to_keep, now |-> lnClock,
                      returned |-> cleanup_old_samples(lnManager.samples, days_to_keep,
                                                       lnClock).rowcount]
    /\ lnCalls' = lnCalls + 1
    /\ UNCHANGED <<lnClock, lnMinSamples, LearnOthers>>

\* Time passes between two calls
LearnTick ==
    /\ lnClock < MaxLearnClock
    /\ lnClock' = lnClock + 1
    /\ UNCHANGED <<lnManager, lnCalls, lnLast, lnMinSamples, LearnOthers>>

(***************************************************************************)
(* services/processing_queue.py: get_job_status and process_immediate      *)
(*                                                                         *)
(* self.jobs is a dict from job_id to job. Every ProcessingJob gets a new  *)
(* uuid4; the ids here are 1, 2, ... in the order of construction.         *)
(***************************************************************************)
\* get_job_status: None for an id that self.jobs does not hold
get_job_status(jobs, job_id) ==
    IF job_id \notin DOMAIN jobs THEN Nothing
    ELSE Some([job_id |-> job_id,
               file_id |-> jobs[job_id].file_id,
               status |-> jobs[job_id].status,
               output_path |-> jobs[job_id].output_path,
               error |-> jobs[job_id].error,
               processing_time |-> jobs[job_id].processing_time])

\* _process_job run to its end on a job: outcome "completed", or the message
\* of the exception caught
process_job(job, job_id, outcome) ==
    IF outcome = "completed"
    THEN job_completed(job_started(job), OutputPathOf(job_id))
    ELSE job_failed(job_started(job), outcome)

\* process_immediate: the job after _process_job, and the value returned.
\* The job is never stored in self.jobs.
process_immediate(jobs, job_id, file_id, outcome) ==
    [job |-> process_job(ProcessingJob(file_id), job_id, outcome),
     returned |-> get_job_status(jobs, job_id)]

\* Bounds of the runs.
MaxImmediateJobs == 4
MaxFileId == 2

NoImmediate == [op |-> "none"]

\* add_job(file_id, preset): the job is stored under its id (and queued)
ImmediateAddJob ==
    /\ imNextId <= MaxImmediateJobs
    /\ \E file_id \in 1..MaxFileId :
        /\ imJobs' = DictSet(imJobs, imNextId, ProcessingJob(file_id))
        /\ imLast' = [op |-> "add_job", job_id |-> imNextId, file_id |-> file_id]
    /\ imNextId' = imNextId + 1
    /\ UNCHANGED ImmediateOthers

\* A worker has run _process_job on a stored job
ImmediateWorkerDone ==
    /\ \E job_id \in DOMAIN imJobs, outcome \in {"completed"} \cup ErrorMessages :
        /\ imJobs[job_id].status = "queued"
        /\ imJobs' = [imJobs EXCEPT ![job_id] = process_job(@, job_id, outcome)]
        /\ imLast' = [op |-> "_process_job", job_id |-> job_id, file_id |-> imJobs[job_id].file_id]
    /\ UNCHANGED <<imNextId, ImmediateOthers>>

\* process_immediate(file_id, preset)
ProcessImmediate ==
    /\ imNextId <= MaxImmediateJobs
    /\ \E file_id \in 1..MaxFileId, outcome \in {"completed"} \cup ErrorMessages :
        imLast' = [op |-> "process_immediate", job_id |-> imNextId, file_id |-> file_id,
                   job |-> process_immediate(imJobs, imNextId, file_id, outcome).job,
                   returned |-> process_immediate(imJobs, imNextId, file_id, outcome).returned]
    /\ imNextId' = imNextId + 1
    /\ UNCHANGED <<imJobs, ImmediateOthers>>

(***************************************************************************)
(* utils/error_handlers.py: ErrorRecovery.retry_async                      *)
(*                                                                         *)
(* One call of retry_async, step by step: the loop variable attempt, the   *)
(* local current_delay and last_exception, and as history the outcomes of  *)
(* the calls of func and the arguments of the calls of asyncio.sleep.      *)
(***************************************************************************)
\* isinstance(e, exceptions) for the exception classes drawn
InFilter(type, exceptions) ==
    \/ exceptions = "Exception" /\ type \in {"ValueError", "KeyError"}
    \/ exceptions = type

\* current_delay *= backoff, as an addition.
next_delay_Added(current_delay, backoff) == RatAdd(current_delay, backoff)

\* current_delay *= backoff
next_delay(current_delay, backoff) == RatMul(current_delay, backoff)

\* Bound of max_attempts.
MaxAttempts == 3

RetryArgs ==
    [max_attempts : 0..MaxAttempts,
     delay : {Rat(1, 1), Rat(1, 2)},
     backoff : {Rat(2, 1), Rat(3, 2)},
     exceptions : {"Exception", "ValueError"}]

NoRetry ==
    [pc |-> "idle", attempt |-> 0, current_delay |-> Rat(0, 1), last_exception |-> Nothing,
     outcomes |-> <<>>, sleeps |-> <<>>, result |-> Nothing]

\* retry_async is called: the locals are set and the loop is entered, or,
\* with max_attempts = 0, skipped: `raise last_exception` with None is a
\* TypeError.
RetryStart ==
    /\ rtRun.pc = "idle"
    /\ rtRun' = IF rtArgs.max_attempts > 0
                THEN [rtRun EXCEPT !.pc = "calling", !.current_delay = rtArgs.delay]
                ELSE [rtRun EXCEPT !.pc = "raised",
                                   !.result = Some([type |-> "TypeError", attempt |-> 0])]
    /\ UNCHANGED <<rtArgs, RetryOthers>>

\* await func() returns
RetryFuncReturns ==
    /\ rtRun.pc = "calling"
    /\ rtRun' = [rtRun EXCEPT !.pc = "returned",
                              !.outcomes = Append(@, [kind |-> "return", attempt |-> rtRun.attempt + 1]),
                              !.result = Some([value |-> "result", attempt |-> rtRun.attempt + 1])]
    /\ UNCHANGED <<rtArgs, RetryOthers>>

\* await func() raises: an exception of the filter is kept and, unless this
\* was the last turn of the loop, asyncio.sleep(current_delay) is awaited;
\* after the last turn last_exception is raised. Any other exception leaves
\* retry_async.
RetryFuncRaises ==
    /\ rtRun.pc = "calling"
    /\ \E type \in {"ValueError", "KeyError", "CancelledError"} :
        LET e == [type |-> type, attempt |-> rtRun.attempt + 1]
            called == [rtRun EXCEPT !.outcomes = Append(@, [kind |-> "raise", attempt |-> e.attempt,
                                                             type |-> type])]
        IN  rtRun' =
                IF ~InFilter(type, rtArgs.exceptions)
                THEN [called EXCEPT !.pc = "raised", !.result = Some(e)]
                ELSE IF rtRun.attempt < rtArgs.max_attempts - 1
                THEN [called EXCEPT !.pc = "sleeping", !.last_exception = Some(e),
                                    !.sleeps = Append(@, rtRun.current_delay)]
                ELSE [called EXCEPT !.pc = "raised", !.last_exception = Some(e),
                                    !.result = Some(e)]
    /\ UNCHANGED <<rtArgs, RetryOthers>>

\* asyncio.sleep returns: current_delay *= backoff and the next turn
RetrySleepDone ==
    /\ rtRun.pc = "sleeping"
    /\ rtRun' = [rtRun EXCEPT !.pc = "calling",
                              !.current_delay = next_delay(@, rtArgs.backoff),
                              !.attempt = @ + 1]
    /\ UNCHANGED <<rtArgs, RetryOthers>>

(***************************************************************************)
(* services/heuristics: HeuristicsManager._load_parameters_from_db         *)
(*                                                                         *)
(* A first manager writes the database through learn_from_adjustment and   *)
(* cleanup_old_samples; a second manager is then constructed over it.      *)
(***************************************************************************)
\* The keys of get_statistics()['aspect_distribution'] and
\* ['zoom_distribution']: GROUP BY over the samples table
aspect_distribution(samples) == {samples[i].aspect_class : i \in DOMAIN samples}
zoom_distribution(samples) == {samples[i].zoom_level : i \in DOMAIN samples}

\* _load_parameters_from_db: the buckets of the new manager. Every aspect
\* class of the statistics is paired with every zoom level of the
\* statistics; raises says whether get_statistics raises, which the except
\* clause logs.
load_parameters_from_db(db, samples, raises) ==
    IF raises THEN EmptyDict
    ELSE LET pairs == {pair \in aspect_distribution(samples) \X zoom_distribution(samples) :
                          DOMAIN get_ema_parameters(db, pair[1], pair[2]) # {}}
             keys == {create_bucket_key(pair[1], pair[2]) : pair \in pairs}
             PairOf(key) == CHOOSE pair \in pairs : create_bucket_key(pair[1], pair[2]) = key
         IN  [key \in keys |-> get_ema_parameters(db, PairOf(key)[1], PairOf(key)[2])]

\* Bounds and inputs of the runs.
MaxLoadCalls == 3
MaxLoadClock == 2

LoadZoomLevels == {"medium", "tight"}

\* learn_from_adjustment for an image of the given aspect class whose face
\* gives the zoom level; add_sample_raises as in FailurePoints
LoadLearn ==
    /\ ldLoaded = Nothing
    /\ ldCalls < MaxLoadCalls
    /\ \E aspect_class \in AspectClasses, zoom_level \in LoadZoomLevels,
          add_sample_raises \in BOOLEAN :
        LET updated == UpdateEmaLoop(ldManager, DefaultAlpha, aspect_class, zoom_level,
                                     CHOOSE deltas \in LearnDeltas : TRUE, 1, "none")
        IN  ldManager' = IF add_sample_raises THEN updated
                         ELSE [updated EXCEPT !.samples =
                                  add_sample(@, aspect_class, zoom_level, ldClock)]
    /\ ldCalls' = ldCalls + 1
    /\ UNCHANGED <<ldClock, ldLoaded, LoadOthers>>

\* manager.cleanup_old_samples(days_to_keep=0)
LoadCleanup ==
    /\ ldLoaded = Nothing
    /\ ldCalls < MaxLoadCalls
    /\ ldManager' = [ldManager EXCEPT !.samples = cleanup_old_samples(@, 0, ldClock).samples]
    /\ ldCalls' = ldCalls + 1
    /\ UNCHANGED <<ldClock, ldLoaded, LoadOthers>>

\* Time passes between two calls
LoadTick ==
    /\ ldLoaded = Nothing
    /\ ldClock < MaxLoadClock
    /\ ldClock' = ldClock + 1
    /\ UNCHANGED <<ldManager, ldCalls, ldLoaded, LoadOthers>>

\* HeuristicsManager(db_path) over the database written so far
ConstructManager ==
    /\ ldLoaded = Nothing
    /\ \E raises \in BOOLEAN :
        ldLoaded' = Some([raises |-> raises,
                          buckets |-> load_parameters_from_db(ldManager.db, ldManager.samples,
                                                              raises)])
    /\ UNCHANGED <<ldManager, ldClock, ldCalls, LoadOthers>>

(***************************************************************************)
(* services/heuristics/database.py: update_ema_parameter called from two   *)
(* threads, each on its own thread-local connection                        *)
(***************************************************************************)
\* The SELECT of update_ema_parameter: cursor.fetchone(), a row or None
select_ema_parameter(db, key) ==
    IF key \in DOMAIN db.params THEN Some(db.params[key]) ELSE Nothing

\* The statement after the SELECT, taking the row from the database again
\* instead of from the caller's variables.
write_ema_parameter_Fresh(db, key, row, new_value, alpha) ==
    [raised |-> FALSE,
     db |-> update_ema_parameter(db, key[1], key[2], key[3], new_value, alpha)]

\* The statement after the SELECT and the commit: the UPDATE writes the EMA
\* of the value read and the sample_count read plus one; the INSERT of a
\* key that is in the table by now violates UNIQUE(aspect_class, zoom_level,
\* parameter_name), the transaction is rolled back and the error raised.
write_ema_parameter(db, key, row, new_value, alpha) ==
    IF row # Nothing
    THEN LET old_value == ValueOf(row).value
             sample_count == ValueOf(row).sample_count
             ema_value == RatAdd(RatMul(RatSub(RatOne, alpha), old_value),
                                 RatMul(alpha, new_value))
         IN  [raised |-> FALSE,
              db |-> IF key \in DOMAIN db.params
                     THEN [db EXCEPT !.params[key].value = ema_value,
                                     !.params[key].sample_count = sample_count + 1]
                     ELSE db]
    ELSE IF key \in DOMAIN db.params
         THEN [raised |-> TRUE, db |-> db]
         ELSE [raised |-> FALSE,
               db |-> [params |-> DictSet(db.params, key,
                                          ParamRow(db.next_id, new_value, 1, alpha)),
                       next_id |-> db.next_id + 1]]

\* Bounds and inputs of the runs.
MaxRaceCalls == 2

Threads == {1, 2}
RaceKey == <<"portrait", "medium", "center_x_offset">>
RaceDatabases ==
    {EmptyDB,
     update_ema_parameter(EmptyDB, RaceKey[1], RaceKey[2], RaceKey[3], Rat(1, 10), DefaultAlpha)}
NoRace == [thread |-> 0]
IdleThread == [pc |-> "idle", calls |-> 0]

\* A thread enters update_ema_parameter and runs the SELECT
RaceSelect(t) ==
    /\ rcThreads[t].pc = "idle"
    /\ rcThreads[t].calls < MaxRaceCalls
    /\ \E new_value \in ObservedValues :
        rcThreads' = [rcThreads EXCEPT ![t] =
                         [pc |-> "selected", calls |-> @.calls + 1, new_value |-> new_value,
                          row |-> select_ema_parameter(rcDb, RaceKey)]]
    /\ UNCHANGED <<rcDb, rcLast, RaceOthers>>

\* The thread runs the UPDATE or INSERT and leaves the transaction
RaceWrite(t) ==
    /\ rcThreads[t].pc = "selected"
    /\ LET written == write_ema_parameter(rcDb, RaceKey, rcThreads[t].row,
                                          rcThreads[t].new_value, DefaultAlpha)
       IN  /\ rcDb' = written.db
           /\ rcLast' = [thread |-> t, row |-> rcThreads[t].row,
                         new_value |-> rcThreads[t].new_value,
                         before |-> select_ema_parameter(rcDb, RaceKey),
                         raised |-> written.raised]
    /\ rcThreads' = [rcThreads EXCEPT ![t] = [pc |-> "idle", calls |-> @.calls]]
    /\ UNCHANGED RaceOthers

(***************************************************************************)
(* services/storage_manager.py: EnhancedStorageManager.verify_integrity    *)
(***************************************************************************)
\* The index of the last "." of the final component of a path below
\* position i, 0 when there is none (a leading dot of the name is no suffix)
RECURSIVE LastDot(_, _)
LastDot(path, i) ==
    IF i <= 1 \/ SubSeq(path, i, i) = "/" \/ SubSeq(path, i - 1, i - 1) = "/" THEN 0
    ELSE IF SubSeq(path, i, i) = "." /\ i < Len(path) THEN i
    ELSE LastDot(path, i - 1)

\* PurePath.with_suffix: the last suffix of the name replaced by suffix
with_suffix(path, suffix) ==
    LET dot == LastDot(path, Len(path))
    IN  (IF dot = 0 THEN path ELSE SubSeq(path, 1, dot - 1)) \o suffix

\* str.endswith
endswith(s, tail) == Len(s) >= Len(tail) /\ SubSeq(s, Len(s) - Len(tail) + 1, Len(s)) = tail

\* The directory of self.dirs a path lies in
dir_name_of(path) ==
    IF SubSeq(path, 1, Len("data/output/")) = "data/output/" THEN "output"
    ELSE IF SubSeq(path, 1, Len("data/originals/")) = "data/originals/" THEN "originals"
    ELSE "temp"

\* Every file below the directories of the manager: dir_path.rglob('*')
rglob(fs) == (DOMAIN fs.files) \cup (DOMAIN fs.metas)

\* verify_integrity, every file being readable; the lists as sets
verify_integrity(fs) ==
    LET files == rglob(fs)
        sidecars == {p \in files : endswith(p, ".meta.json")}
    IN  [missing_metadata |->
            {p \in files \ sidecars : dir_name_of(p) \in {"originals", "output"}
                                        /\ with_suffix(p, ".meta.json") \notin files},
         orphaned_metadata |-> {p \in sidecars : with_suffix(p, "") \notin files},
         corrupted_files |-> {}, permission_errors |-> {}]

\* Bounds and inputs of the runs.
MaxIntegritySaves == 2

\* The files test_verify_integrity writes into originals by hand
RawFiles == {"data/originals/no_meta.png", "data/originals/orphan.meta.json"}
NoIntegrity == [n |-> 0]

\* await storage_manager.save_output(...)
IntegritySaveOutput ==
    /\ igSaves < MaxIntegritySaves
    /\ \E e \in Employees, p \in OutputPresets, dh \in DuplicateHandling :
        LET r == save_output(igTree, [id |-> igSaves + 1, size |-> 1], e, p, "file123", dh, 1)
        IN  igTree' = [files |-> r.files, metas |-> r.metas]
    /\ igSaves' = igSaves + 1
    /\ UNCHANGED <<igLast, IntegrityOthers>>

\* A file written into the storage directories from outside the manager
IntegrityRawWrite ==
    /\ \E p \in RawFiles \ rglob(igTree) :
        igTree' = IF endswith(p, ".meta.json")
                  THEN [igTree EXCEPT !.metas = DictSet(@, p, OldMeta)]
                  ELSE [igTree EXCEPT !.files = DictSet(@, p, OldContent)]
    /\ UNCHANGED <<igSaves, igLast, IntegrityOthers>>

\* A data file or a sidecar removed from outside the manager
IntegrityUnlink ==
    /\ \E p \in rglob(igTree) :
        igTree' = [files |-> [q \in (DOMAIN igTree.files) \ {p} |-> igTree.files[q]],
                   metas |-> [q \in (DOMAIN igTree.metas) \ {p} |-> igTree.metas[q]]]
    /\ UNCHANGED <<igSaves, igLast, IntegrityOthers>>

\* issues = await storage_manager.verify_integrity()
VerifyIntegrity ==
    /\ igLast' = [n |-> 1, tree |-> igTree, issues |-> verify_integrity(igTree)]
    /\ UNCHANGED <<igTree, igSaves, IntegrityOthers>>

(***************************************************************************)
(* services/optimization/optimizer.py: ImageOptimizer.optimize_image       *)
(*                                                                         *)
(* Bytes are [by, size]: what produced them and their length. A stage's    *)
(* outcome is StageNone (the tool failed: non-zero exit, timeout, any      *)
(* exception inside the helper's try), StageRaises (an exception before    *)
(* the helper's try, e.g. no temporary file can be made) or the bytes the  *)
(* tool wrote.                                                             *)
(***************************************************************************)
Bytes(by, size) == [by |-> by, size |-> size]
StageNone == Bytes("None", 0)
StageRaises == Bytes("raises", 0)

\* The test with <= in place of <.
KeepsStage_OrEqual(result, optimized_bytes) ==
    result # StageNone /\ result.size > 0 /\ result.size <= optimized_bytes.size

\* "if result and len(result) < len(optimized_bytes)": bytes are truthy when
\* not empty
KeepsStage(result, optimized_bytes) ==
    result # StageNone /\ result.size > 0 /\ result.size < optimized_bytes.size

OptimizationResult(original_size, optimized_size, optimization_method, success) ==
    [original_size |-> original_size, optimized_size |-> optimized_size,
     reduction_percentage |-> [num |-> (original_size - optimized_size) * 100,
                               den |-> original_size],
     optimization_method |-> optimization_method, success |-> success]

\* optimize_image of an optimizer [strip_metadata, enable_lossy,
\* oxipng_available, pngquant_available] on an image whose PNG has
\* png_size bytes and stripped_size bytes once its metadata is stripped
optimize_image(optimizer, png_size, stripped_size, oxipng_outcome, pngquant_outcome) ==
    LET original_size == png_size
        original_bytes == IF optimizer.strip_metadata THEN Bytes("png", stripped_size)
                          ELSE Bytes("png", png_size)
        run_oxipng == optimizer.oxipng_available
        keep_oxipng == run_oxipng /\ oxipng_outcome # StageRaises
                          /\ KeepsStage(oxipng_outcome, original_bytes)
        after_oxipng == IF keep_oxipng THEN oxipng_outcome ELSE original_bytes
        method_oxipng == IF keep_oxipng THEN "oxipng" ELSE "none"
        run_pngquant == optimizer.enable_lossy /\ optimizer.pngquant_available
        keep_pngquant == run_pngquant /\ pngquant_outcome # StageRaises
                            /\ KeepsStage(pngquant_outcome, after_oxipng)
        optimized_bytes == IF keep_pngquant THEN pngquant_outcome ELSE after_oxipng
        optimization_method ==
            IF keep_pngquant
            THEN (IF method_oxipng = "none" THEN "pngquant" ELSE "oxipng+pngquant")
            ELSE method_oxipng
    IN  IF (run_oxipng /\ oxipng_outcome = StageRaises)
              \/ (run_pngquant /\ pngquant_outcome = StageRaises)
        THEN [bytes |-> original_bytes,
              result |-> [original_size |-> original_size, optimized_size |-> original_size,
                          reduction_percentage |-> [num |-> 0, den |-> 1],
                          optimization_method |-> "none", success |-> FALSE]]
        ELSE [bytes |-> optimized_bytes,
              result |-> OptimizationResult(original_size, optimized_bytes.size,
                                            optimization_method, TRUE)]

\* Bounds and inputs of the runs.
MaxPngSize == 3

Optimizers ==
    [strip_metadata : BOOLEAN, enable_lossy : BOOLEAN,
     oxipng_available : BOOLEAN, pngquant_available : BOOLEAN]
StageOutcomes(by) == {StageNone, StageRaises} \cup {Bytes(by, size) : size \in 0..MaxPngSize}
OptimizeInputs ==
    [optimizer : Optimizers, png_size : 1..MaxPngSize, stripped_size : 1..MaxPngSize,
     oxipng_outcome : StageOutcomes("oxipng"), pngquant_outcome : StageOutcomes("pngquant")]
NoOptimize == [n |-> 0]

\* optimized_bytes, result = optimizer.optimize_image(image)
OptimizeImage ==
    /\ opLast = NoOptimize
    /\ opLast' = [n |-> 1, optimizer |-> opInput.optimizer, png_size |-> opInput.png_size,
                  stripped_size |-> opInput.stripped_size,
                  oxipng_outcome |-> opInput.oxipng_outcome,
                  pngquant_outcome |-> opInput.pngquant_outcome,
                  returned |-> optimize_image(opInput.optimizer, opInput.png_size,
                                              opInput.stripped_size, opInput.oxipng_outcome,
                                              opInput.pngquant_outcome)]
    /\ UNCHANGED <<opInput, OptimizerOthers>>

(***************************************************************************)
(* services/image_processor.py: optimize_image_bytes and optimize_png      *)
(*                                                                         *)
(* A service is [use_tinify]: its optimizer is a TinifyOptimizer when      *)
(* use_tinify, the local ImageOptimizer otherwise. What the outside does   *)
(* is in outcomes: whether the Tinify request, Image.open and the local    *)
(* optimizer raise.                                                        *)
(***************************************************************************)
\* TinifyOptimizer.optimize_bytes: the bytes go to the service; an error is
\* caught and the input returned
tinify_optimize_bytes(image_bytes, outcomes) ==
    [bytes |-> IF outcomes.tinify_raises THEN image_bytes ELSE Bytes("tinify", 1),
     sent_to_tinify |-> TRUE, raised |-> FALSE]

\* ImageOptimizer.optimize_image on the opened image
local_optimize_image(image_bytes, outcomes) ==
    [bytes |-> Bytes("local", 1), sent_to_tinify |-> FALSE, raised |-> outcomes.local_raises]

\* ImageProcessorService.optimize_png
optimize_png(service, USE_PNG_OPTIMIZATION, png_bytes, auto_optimize, outcomes) ==
    IF ~USE_PNG_OPTIMIZATION
    THEN [bytes |-> png_bytes, sent_to_tinify |-> FALSE, by |-> "unchanged"]
    ELSE IF service.use_tinify /\ auto_optimize
    THEN LET r == tinify_optimize_bytes(png_bytes, outcomes)
         IN  [bytes |-> r.bytes, sent_to_tinify |-> TRUE, by |-> "tinify"]
    ELSE IF outcomes.open_raises
    THEN [bytes |-> png_bytes, sent_to_tinify |-> FALSE, by |-> "unchanged"]
    ELSE IF service.use_tinify
    THEN \* hasattr(self.optimizer, 'optimize_bytes'): the TinifyOptimizer
         LET r == tinify_optimize_bytes(png_bytes, outcomes)
         IN  [bytes |-> r.bytes, sent_to_tinify |-> TRUE, by |-> "tinify"]
    ELSE LET r == local_optimize_image(png_bytes, outcomes)
         IN  IF r.raised
             THEN [bytes |-> png_bytes, sent_to_tinify |-> FALSE, by |-> "unchanged"]
             ELSE [bytes |-> r.bytes, sent_to_tinify |-> FALSE, by |-> "local"]

\* ImageProcessorService.optimize_image_bytes
optimize_image_bytes(service, USE_PNG_OPTIMIZATION, image_bytes, format, auto_optimize, outcomes) ==
    IF ~USE_PNG_OPTIMIZATION /\ format = "png"
    THEN [bytes |-> image_bytes, sent_to_tinify |-> FALSE, by |-> "unchanged"]
    ELSE IF service.use_tinify /\ auto_optimize
    THEN LET r == tinify_optimize_bytes(image_bytes, outcomes)
         IN  [bytes |-> r.bytes, sent_to_tinify |-> TRUE, by |-> "tinify"]
    ELSE IF format = "png"
    THEN optimize_png(service, USE_PNG_OPTIMIZATION, image_bytes, FALSE, outcomes)
    ELSE [bytes |-> image_bytes, sent_to_tinify |-> FALSE, by |-> "unchanged"]

\* Inputs of the runs.
ImageFormats == {"jpeg", "png", "webp"}
ProcessorInputs ==
    [use_tinify : BOOLEAN, USE_PNG_OPTIMIZATION : BOOLEAN, format : ImageFormats,
     auto_optimize : BOOLEAN,
     outcomes : [tinify_raises : BOOLEAN, open_raises : BOOLEAN, local_raises : BOOLEAN]]
EncodedBytes == Bytes("encoded", 2)
NoProcessorCall == [n |-> 0]

\* image_processor.optimize_image_bytes(image_bytes, format, auto_optimize)
OptimizeImageBytes ==
    /\ prLast = NoProcessorCall
    /\ prLast' = [n |-> 1,
                  returned |-> optimize_image_bytes([use_tinify |-> prInput.use_tinify],
                                                    prInput.USE_PNG_OPTIMIZATION, EncodedBytes,
                                                    prInput.format, prInput.auto_optimize,
                                                    prInput.outcomes)]
    /\ UNCHANGED <<prInput, ProcessorOthers>>

(***************************************************************************)
(* utils/validators.py: validate_mime_type                                 *)
(***************************************************************************)
ALLOWED_MIME_TYPES ==
    {"image/jpeg", "image/png", "image/webp", "image/gif", "image/bmp", "image/x-bmp"}

\* validators.ValidationError(message, code, details), as what a call ends in
validators_ValidationError(message, code) ==
    [raised |-> "ValidationError", message |-> message, code |-> code]

\* validate_mime_type of a file on which magic.from_file gives sniffed: a
\* MIME type, or an exception. Whatever is raised inside the try, the
\* ValidationError of the type test included, reaches "except Exception".
validate_mime_type(sniffed) ==
    LET in_try ==
            IF sniffed.raises THEN [raised |-> "Exception", message |-> sniffed.error]
            ELSE IF sniffed.mime \notin ALLOWED_MIME_TYPES
            THEN validators_ValidationError("Invalid file type detected: " \o sniffed.mime,
                                            "INVALID_MIME_TYPE")
            ELSE [raised |-> "none", value |-> sniffed.mime]
    IN  IF in_try.raised # "none"
        THEN validators_ValidationError("Could not determine file type: " \o in_try.message,
                                        "MIME_CHECK_FAILED")
        ELSE in_try

\* Bounds and inputs of the runs.
MaxValidateCalls == 2

SniffedTypes == ALLOWED_MIME_TYPES \cup {"application/pdf", "text/plain"}
SniffOutcomes ==
    {[raises |-> FALSE, mime |-> t, error |-> ""] : t \in SniffedTypes}
        \cup {[raises |-> TRUE, mime |-> "", error |-> e] :
                 e \in {"No such file or directory", "failed to find libmagic"}}

\* validate_mime_type(file_path)
ValidateMimeType ==
    /\ Len(vmLog) < MaxValidateCalls
    /\ \E sniffed \in SniffOutcomes :
        vmLog' = Append(vmLog, [sniffed |-> sniffed, ended |-> validate_mime_type(sniffed)])
    /\ UNCHANGED ValidatorsOthers

(***************************************************************************)
(* services/heuristics: HeuristicsManager.reset_learning                   *)
(***************************************************************************)
\* EMACalculator.reset_bucket: del self.buckets[bucket_key] when it is there
reset_bucket(bkts, bucket_key) == [k \in (DOMAIN bkts) \ {bucket_key} |-> bkts[k]]

\* EMACalculator.reset_all
reset_all(bkts) == EmptyDict

\* HeuristicsManager.reset_learning(aspect_class, zoom_level), None being
\* "None": one bucket of the calculator when both are given, all of them
\* otherwise; the database is not touched
reset_learning(mgr, aspect_class, zoom_level) ==
    IF aspect_class # "None" /\ zoom_level # "None"
    THEN [mgr EXCEPT !.buckets = reset_bucket(@, create_bucket_key(aspect_class, zoom_level))]
    ELSE [mgr EXCEPT !.buckets = reset_all(@)]

\* The buckets a reset_learning call resets
BucketsReset(aspect_class, zoom_level) ==
    IF aspect_class # "None" /\ zoom_level # "None"
    THEN {create_bucket_key(aspect_class, zoom_level)}
    ELSE BucketKeys

\* Bounds and inputs of the runs.
MaxResetCalls == 3

ResetArguments ==
    {<<"None", "None">>, <<"portrait", "None">>} \cup (AspectClasses \X ZoomLevels)
NoResetCall == [op |-> "none"]

\* manager.learn_from_adjustment(image, initial_crop, final_crop)
ResetLearn ==
    /\ rsCalls < MaxResetCalls
    /\ \E aspect_class \in AspectClasses, raises \in {"none", "add_sample"} :
        /\ rsManager' = learn_from_adjustment(rsManager, DefaultAlpha, aspect_class,
                                              CHOOSE deltas \in LearnDeltas : TRUE, raises, 0)
        /\ rsFresh' = rsFresh \ {create_bucket_key(aspect_class, "medium")}
        /\ rsLast' = [op |-> "learn_from_adjustment", raises |-> raises]
    /\ rsCalls' = rsCalls + 1
    /\ UNCHANGED <<rsMinSamples, ResetOthers>>

\* manager.reset_learning(aspect_class, zoom_level)
ResetLearning ==
    /\ rsCalls < MaxResetCalls
    /\ \E arguments \in ResetArguments :
        /\ rsManager' = reset_learning(rsManager, arguments[1], arguments[2])
        /\ rsFresh' = rsFresh \cup BucketsReset(arguments[1], arguments[2])
        /\ rsLast' = [op |-> "reset_learning", arguments |-> arguments]
    /\ rsCalls' = rsCalls + 1
    /\ UNCHANGED <<rsMinSamples, ResetOthers>>

\* manager.apply_heuristics(image, base_crop, confidence_threshold)
ResetApply ==
    /\ rsCalls < MaxResetCalls
    /\ \E aspect_class \in AspectClasses, confidence_threshold \in ConfidenceThresholds,
          raises \in BOOLEAN :
        rsLast' = [op |-> "apply_heuristics", aspect_class |-> aspect_class, raises |-> raises,
                   returned |-> apply_heuristics(rsManager, rsMinSamples, aspect_class, BaseCrop,
                                                 confidence_threshold, raises)]
    /\ rsCalls' = rsCalls + 1
    /\ UNCHANGED <<rsManager, rsFresh, rsMinSamples, ResetOthers>>

(***************************************************************************)
(* services/storage_manager.py: two save_output coroutines on one event    *)
(* loop, both under DuplicateHandling.SUFFIX                               *)
(*                                                                         *)
(* A coroutine runs without interruption up to its first await, which is   *)
(* aiofiles.open of the data file: the path is chosen before the file of   *)
(* that path is made.                                                      *)
(***************************************************************************)
\* The path save_output settles on under SUFFIX, from the files that exist
\* when it looks
suffix_file_path(files, employee_name, preset_name, today) ==
    LET stem == OutputStem(employee_name, preset_name, today)
    IN  IF (stem \o Extension) \in DOMAIN files
        THEN NextFreePath(files, stem, 1)
        ELSE stem \o Extension

\* The content and the sidecar of the call of a coroutine
ContentOf(c) == [id |-> c, size |-> c]
MetaOf(c) ==
    [original_file_id |-> "file123", employee_name |-> "Ann/Lee", preset_name |-> "headshot",
     file_size |-> ContentOf(c).size]

\* Inputs of the runs.
Coroutines == {1, 2}
NotStarted == [pc |-> "start", path |-> ""]

\* save_output up to its first await: the directory, the name, the
\* duplicate handling
SaveChoosePath(c) ==
    /\ csCalls[c].pc = "start"
    /\ csCalls' = [csCalls EXCEPT ![c] =
                      [pc |-> "opening",
                       path |-> suffix_file_path(csTree.files, "Ann/Lee", "headshot", 1)]]
    /\ UNCHANGED <<csTree, ConcurrentSaveOthers>>

\* aiofiles.open(file_path, 'wb') completes: the file is there, empty
SaveOpen(c) ==
    /\ csCalls[c].pc = "opening"
    /\ csTree' = [csTree EXCEPT !.files = DictSet(@, csCalls[c].path, [id |-> c, size |-> 0])]
    /\ csCalls' = [csCalls EXCEPT ![c].pc = "opened"]
    /\ UNCHANGED ConcurrentSaveOthers

\* await f.write(content), and the file is closed
SaveWrite(c) ==
    /\ csCalls[c].pc = "opened"
    /\ csTree' = [csTree EXCEPT !.files = DictSet(@, csCalls[c].path, ContentOf(c))]
    /\ csCalls' = [csCalls EXCEPT ![c].pc = "written"]
    /\ UNCHANGED ConcurrentSaveOthers

\* The sidecar is opened and written, and save_output returns file_path
SaveMeta(c) ==
    /\ csCalls[c].pc = "written"
    /\ csTree' = [csTree EXCEPT !.metas = DictSet(@, MetaPath(csCalls[c].path), MetaOf(c))]
    /\ csCalls' = [csCalls EXCEPT ![c].pc = "done"]
    /\ UNCHANGED ConcurrentSaveOthers

(***************************************************************************)
(* Specifications: one per subsystem. Each starts its own subsystem in its *)
(* initial states and holds every other subsystem idle.                    *)
(***************************************************************************)
CalcInit ==
    /\ calcIn \in CalcInputs
    /\ calcOut = Nothing
    /\ adjIn = None
    /\ adjApplied = Nothing
    /\ adjValid = Nothing
    /\ heurAlpha = DefaultAlpha
    /\ heurBuckets = EmptyDict
    /\ heurDb = EmptyDB
    /\ heurLast = NoCall
    /\ heurExport = Nothing
    /\ heurExportSource = Nothing
    /\ heurTarget = Nothing
    /\ detPrimary = <<>>
    /\ detSecondary = <<>>
    /\ detMinIou = Rat(0, 1)
    /\ detPair = Nothing
    /\ detFace = Nothing
    /\ stTree = [files |-> EmptyDict, metas |-> EmptyDict]
    /\ stToday = 1
    /\ stCalls = <<>>
    /\ cbBreaker = CircuitBreaker(1, RecoveryTimeout)
    /\ cbNow = 0
    /\ cbInFlight = 0
    /\ cbCalls = 0
    /\ cbRejected = 0
    /\ cbConsecutive = 0
    /\ cbLast = NoEvent
    /\ qJobs = <<>>
    /\ qQueue = <<>>
    /\ qWorkers = <<>>
    /\ qRunning = FALSE
    /\ qTaken = <<>>
    /\ qEverStopped = FALSE
    /\ appPhase = "created"
    /\ appServices = [s \in QueueServices |-> NewQueueService]
    /\ appUploads = 0
    /\ appTasks = <<>>
    /\ appLast = [file_id |-> 0, status |-> 0, body |-> "none"]
    /\ exCalls = 0
    /\ exLast = NoExport
    /\ sgCalls = 0
    /\ sgLast = NoSuggest
    /\ heCalls = 0
    /\ heLast = NoHandlerCall
    /\ lnManager = LearnManager
    /\ lnMinSamples = MinSamplesForConfidence
    /\ lnClock = 0
    /\ lnCalls = 0
    /\ lnLast = NoLearnCall
    /\ imJobs = EmptyDict
    /\ imNextId = 1
    /\ imLast = NoImmediate
    /\ rtArgs = [max_attempts |-> 0, delay |-> Rat(1, 1), backoff |-> Rat(2, 1), exceptions |-> "Exception"]
    /\ rtRun = NoRetry
    /\ ldManager = LearnManager
    /\ ldClock = 0
    /\ ldCalls = 0
    /\ ldLoaded = Nothing
    /\ rcDb = EmptyDB
    /\ rcThreads = [t \in Threads |-> IdleThread]
    /\ rcLast = NoRace
    /\ igTree = [files |-> EmptyDict, metas |-> EmptyDict]
    /\ igSaves = 0
    /\ igLast = NoIntegrity
    /\ opInput = [n |-> 0]
    /\ opLast = NoOptimize
    /\ prInput = [n |-> 0]
    /\ prLast = NoProcessorCall
    /\ vmLog = <<>>
    /\ rsManager = LearnManager
    /\ rsMinSamples = MinSamplesForConfidence
    /\ rsFresh = {}
    /\ rsCalls = 0
    /\ rsLast = NoResetCall
    /\ csTree = [files |-> EmptyDict, metas |-> EmptyDict]
    /\ csCalls = [c \in Coroutines |-> NotStarted]

CalcNext ==
    \/ CalculateCrop

CalcSpec == CalcInit /\ [][CalcNext]_vars

AdjustInit ==
    /\ calcIn = None
    /\ calcOut = Nothing
    /\ adjIn \in AdjInputs
    /\ adjApplied = Nothing
    /\ adjValid = Nothing
    /\ heurAlpha = DefaultAlpha
    /\ heurBuckets = EmptyDict
    /\ heurDb = EmptyDB
    /\ heurLast = NoCall
    /\ heurExport = Nothing
    /\ heurExportSource = Nothing
    /\ heurTarget = Nothing
    /\ detPrimary = <<>>
    /\ detSecondary = <<>>
    /\ detMinIou = Rat(0, 1)
    /\ detPair = Nothing
    /\ detFace = Nothing
    /\ stTree = [files |-> EmptyDict, metas |-> EmptyDict]
    /\ stToday = 1
    /\ stCalls = <<>>
    /\ cbBreaker = CircuitBreaker(1, RecoveryTimeout)
    /\ cbNow = 0
    /\ cbInFlight = 0
    /\ cbCalls = 0
    /\ cbRejected = 0
    /\ cbConsecutive = 0
    /\ cbLast = NoEvent
    /\ qJobs = <<>>
    /\ qQueue = <<>>
    /\ qWorkers = <<>>
    /\ qRunning = FALSE
    /\ qTaken = <<>>
    /\ qEverStopped = FALSE
    /\ appPhase = "created"
    /\ appServices = [s \in QueueServices |-> NewQueueService]
    /\ appUploads = 0
    /\ appTasks = <<>>
    /\ appLast = [file_id |-> 0, status |-> 0, body |-> "none"]
    /\ exCalls = 0
    /\ exLast = NoExport
    /\ sgCalls = 0
    /\ sgLast = NoSuggest
    /\ heCalls = 0
    /\ heLast = NoHandlerCall
    /\ lnManager = LearnManager
    /\ lnMinSamples = MinSamplesForConfidence
    /\ lnClock = 0
    /\ lnCalls = 0
    /\ lnLast = NoLearnCall
    /\ imJobs = EmptyDict
    /\ imNextId = 1
    /\ imLast = NoImmediate
    /\ rtArgs = [max_attempts |-> 0, delay |-> Rat(1, 1), backoff |-> Rat(2, 1), exceptions |-> "Exception"]
    /\ rtRun = NoRetry
    /\ ldManager = LearnManager
    /\ ldClock = 0
    /\ ldCalls = 0
    /\ ldLoaded = Nothing
    /\ rcDb = EmptyDB
    /\ rcThreads = [t \in Threads |-> IdleThread]
    /\ rcLast = NoRace
    /\ igTree = [files |-> EmptyDict, metas |-> EmptyDict]
    /\ igSaves = 0
    /\ igLast = NoIntegrity
    /\ opInput = [n |-> 0]
    /\ opLast = NoOptimize
    /\ prInput = [n |-> 0]
    /\ prLast = NoProcessorCall
    /\ vmLog = <<>>
    /\ rsManager = LearnManager
    /\ rsMinSamples = MinSamplesForConfidence
    /\ rsFresh = {}
    /\ rsCalls = 0
    /\ rsLast = NoResetCall
    /\ csTree = [files |-> EmptyDict, metas |-> EmptyDict]
    /\ csCalls = [c \in Coroutines |-> NotStarted]

AdjustNext ==
    \/ ApplyToCrop
    \/ ValidateManualAdjustment

AdjustSpec == AdjustInit /\ [][AdjustNext]_vars

HeurInit ==
    /\ calcIn = None
    /\ calcOut = Nothing
    /\ adjIn = None
    /\ adjApplied = Nothing
    /\ adjValid = Nothing
    /\ heurAlpha \in AlphaChoices
    /\ heurBuckets = EmptyDict
    /\ heurDb = EmptyDB
    /\ heurLast = NoCall
    /\ heurExport = Nothing
    /\ heurExportSource = Nothing
    /\ heurTarget = Nothing
    /\ detPrimary = <<>>
    /\ detSecondary = <<>>
    /\ detMinIou = Rat(0, 1)
    /\ detPair = Nothing
    /\ detFace = Nothing
    /\ stTree = [files |-> EmptyDict, metas |-> EmptyDict]
    /\ stToday = 1
    /\ stCalls = <<>>
    /\ cbBreaker = CircuitBreaker(1, RecoveryTimeout)
    /\ cbNow = 0
    /\ cbInFlight = 0
    /\ cbCalls = 0
    /\ cbRejected = 0
    /\ cbConsecutive = 0
    /\ cbLast = NoEvent
    /\ qJobs = <<>>
    /\ qQueue = <<>>
    /\ qWorkers = <<>>
    /\ qRunning = FALSE
    /\ qTaken = <<>>
    /\ qEverStopped = FALSE
    /\ appPhase = "created"
    /\ appServices = [s \in QueueServices |-> NewQueueService]
    /\ appUploads = 0
    /\ appTasks = <<>>
    /\ appLast = [file_id |-> 0, status |-> 0, body |-> "none"]
    /\ exCalls = 0
    /\ exLast = NoExport
    /\ sgCalls = 0
    /\ sgLast = NoSuggest
    /\ heCalls = 0
    /\ heLast = NoHandlerCall
    /\ lnManager = LearnManager
    /\ lnMinSamples = MinSamplesForConfidence
    /\ lnClock = 0
    /\ lnCalls = 0
    /\ lnLast = NoLearnCall
    /\ imJobs = EmptyDict
    /\ imNextId = 1
    /\ imLast = NoImmediate
    /\ rtArgs = [max_attempts |-> 0, delay |-> Rat(1, 1), backoff |-> Rat(2, 1), exceptions |-> "Exception"]
    /\ rtRun = NoRetry
    /\ ldManager = LearnManager
    /\ ldClock = 0
    /\ ldCalls = 0
    /\ ldLoaded = Nothing
    /\ rcDb = EmptyDB
    /\ rcThreads = [t \in Threads |-> IdleThread]
    /\ rcLast = NoRace
    /\ igTree = [files |-> EmptyDict, metas |-> EmptyDict]
    /\ igSaves = 0
    /\ igLast = NoIntegrity
    /\ opInput = [n |-> 0]
    /\ opLast = NoOptimize
    /\ prInput = [n |-> 0]
    /\ prLast = NoProcessorCall
    /\ vmLog = <<>>
    /\ rsManager = LearnManager
    /\ rsMinSamples = MinSamplesForConfidence
    /\ rsFresh = {}
    /\ rsCalls = 0
    /\ rsLast = NoResetCall
    /\ csTree = [files |-> EmptyDict, metas |-> EmptyDict]
    /\ csCalls = [c \in Coroutines |-> NotStarted]

HeurNext ==
    \/ UpdateBucket
    \/ UpdateEmaParameter
    \/ ExportModel
    \/ ImportModel

HeurSpec == HeurInit /\ [][HeurNext]_vars

DetectInit ==
    /\ calcIn = None
    /\ calcOut = Nothing
    /\ adjIn = None
    /\ adjApplied = Nothing
    /\ adjValid = Nothing
    /\ heurAlpha = DefaultAlpha
    /\ heurBuckets = EmptyDict
    /\ heurDb = EmptyDB
    /\ heurLast = NoCall
    /\ heurExport = Nothing
    /\ heurExportSource = Nothing
    /\ heurTarget = Nothing
    /\ detPrimary \in DetectionLists(ShortDetections)
    /\ detSecondary \in DetectionLists(FullDetections)
    /\ detMinIou = Rat(0, 1)
    /\ detPair = Nothing
    /\ detFace = Nothing
    /\ stTree = [files |-> EmptyDict, metas |-> EmptyDict]
    /\ stToday = 1
    /\ stCalls = <<>>
    /\ cbBreaker = CircuitBreaker(1, RecoveryTimeout)
    /\ cbNow = 0
    /\ cbInFlight = 0
    /\ cbCalls = 0
    /\ cbRejected = 0
    /\ cbConsecutive = 0
    /\ cbLast = NoEvent
    /\ qJobs = <<>>
    /\ qQueue = <<>>
    /\ qWorkers = <<>>
    /\ qRunning = FALSE
    /\ qTaken = <<>>
    /\ qEverStopped = FALSE
    /\ appPhase = "created"
    /\ appServices = [s \in QueueServices |-> NewQueueService]
    /\ appUploads = 0
    /\ appTasks = <<>>
    /\ appLast = [file_id |-> 0, status |-> 0, body |-> "none"]
    /\ exCalls = 0
    /\ exLast = NoExport
    /\ sgCalls = 0
    /\ sgLast = NoSuggest
    /\ heCalls = 0
    /\ heLast = NoHandlerCall
    /\ lnManager = LearnManager
    /\ lnMinSamples = MinSamplesForConfidence
    /\ lnClock = 0
    /\ lnCalls = 0
    /\ lnLast = NoLearnCall
    /\ imJobs = EmptyDict
    /\ imNextId = 1
    /\ imLast = NoImmediate
    /\ rtArgs = [max_attempts |-> 0, delay |-> Rat(1, 1), backoff |-> Rat(2, 1), exceptions |-> "Exception"]
    /\ rtRun = NoRetry
    /\ ldManager = LearnManager
    /\ ldClock = 0
    /\ ldCalls = 0
    /\ ldLoaded = Nothing
    /\ rcDb = EmptyDB
    /\ rcThreads = [t \in Threads |-> IdleThread]
    /\ rcLast = NoRace
    /\ igTree = [files |-> EmptyDict, metas |-> EmptyDict]
    /\ igSaves = 0
    /\ igLast = NoIntegrity
    /\ opInput = [n |-> 0]
    /\ opLast = NoOptimize
    /\ prInput = [n |-> 0]
    /\ prLast = NoProcessorCall
    /\ vmLog = <<>>
    /\ rsManager = LearnManager
    /\ rsMinSamples = MinSamplesForConfidence
    /\ rsFresh = {}
    /\ rsCalls = 0
    /\ rsLast = NoResetCall
    /\ csTree = [files |-> EmptyDict, metas |-> EmptyDict]
    /\ csCalls = [c \in Coroutines |-> NotStarted]

DetectNext ==
    \/ FindUniqueBestPair
    \/ DetectFace

DetectSpec == DetectInit /\ [][DetectNext]_vars

StorageInit ==
    /\ calcIn = None
    /\ calcOut = Nothing
    /\ adjIn = None
    /\ adjApplied = Nothing
    /\ adjValid = Nothing
    /\ heurAlpha = DefaultAlpha
    /\ heurBuckets = EmptyDict
    /\ heurDb = EmptyDB
    /\ heurLast = NoCall
    /\ heurExport = Nothing
    /\ heurExportSource = Nothing
    /\ heurTarget = Nothing
    /\ detPrimary = <<>>
    /\ detSecondary = <<>>
    /\ detMinIou = Rat(0, 1)
    /\ detPair = Nothing
    /\ detFace = Nothing
    /\ stTree \in OldTrees
    /\ stToday = 1
    /\ stCalls = <<>>
    /\ cbBreaker = CircuitBreaker(1, RecoveryTimeout)
    /\ cbNow = 0
    /\ cbInFlight = 0
    /\ cbCalls = 0
    /\ cbRejected = 0
    /\ cbConsecutive = 0
    /\ cbLast = NoEvent
    /\ qJobs = <<>>
    /\ qQueue = <<>>
    /\ qWorkers = <<>>
    /\ qRunning = FALSE
    /\ qTaken = <<>>
    /\ qEverStopped = FALSE
    /\ appPhase = "created"
    /\ appServices = [s \in QueueServices |-> NewQueueService]
    /\ appUploads = 0
    /\ appTasks = <<>>
    /\ appLast = [file_id |-> 0, status |-> 0, body |-> "none"]
    /\ exCalls = 0
    /\ exLast = NoExport
    /\ sgCalls = 0
    /\ sgLast = NoSuggest
    /\ heCalls = 0
    /\ heLast = NoHandlerCall
    /\ lnManager = LearnManager
    /\ lnMinSamples = MinSamplesForConfidence
    /\ lnClock = 0
    /\ lnCalls = 0
    /\ lnLast = NoLearnCall
    /\ imJobs = EmptyDict
    /\ imNextId = 1
    /\ imLast = NoImmediate
    /\ rtArgs = [max_attempts |-> 0, delay |-> Rat(1, 1), backoff |-> Rat(2, 1), exceptions |-> "Exception"]
    /\ rtRun = NoRetry
    /\ ldManager = LearnManager
    /\ ldClock = 0
    /\ ldCalls = 0
    /\ ldLoaded = Nothing
    /\ rcDb = EmptyDB
    /\ rcThreads = [t \in Threads |-> IdleThread]
    /\ rcLast = NoRace
    /\ igTree = [files |-> EmptyDict, metas |-> EmptyDict]
    /\ igSaves = 0
    /\ igLast = NoIntegrity
    /\ opInput = [n |-> 0]
    /\ opLast = NoOptimize
    /\ prInput = [n |-> 0]
    /\ prLast = NoProcessorCall
    /\ vmLog = <<>>
    /\ rsManager = LearnManager
    /\ rsMinSamples = MinSamplesForConfidence
    /\ rsFresh = {}
    /\ rsCalls = 0
    /\ rsLast = NoResetCall
    /\ csTree = [files |-> EmptyDict, metas |-> EmptyDict]
    /\ csCalls = [c \in Coroutines |-> NotStarted]

StorageNext ==
    \/ SaveOutput
    \/ NextDay

StorageSpec == StorageInit /\ [][StorageNext]_vars

BreakerInit ==
    /\ calcIn = None
    /\ calcOut = Nothing
    /\ adjIn = None
    /\ adjApplied = Nothing
    /\ adjValid = Nothing
    /\ heurAlpha = DefaultAlpha
    /\ heurBuckets = EmptyDict
    /\ heurDb = EmptyDB
    /\ heurLast = NoCall
    /\ heurExport = Nothing
    /\ heurExportSource = Nothing
    /\ heurTarget = Nothing
    /\ detPrimary = <<>>
    /\ detSecondary = <<>>
    /\ detMinIou = Rat(0, 1)
    /\ detPair = Nothing
    /\ detFace = Nothing
    /\ stTree = [files |-> EmptyDict, metas |-> EmptyDict]
    /\ stToday = 1
    /\ stCalls = <<>>
    /\ cbBreaker \in {CircuitBreaker(t, RecoveryTimeout) : t \in 1..MaxThreshold}
    /\ cbNow = 0
    /\ cbInFlight = 0
    /\ cbCalls = 0
    /\ cbRejected = 0
    /\ cbConsecutive = 0
    /\ cbLast = NoEvent
    /\ qJobs = <<>>
    /\ qQueue = <<>>
    /\ qWorkers = <<>>
    /\ qRunning = FALSE
    /\ qTaken = <<>>
    /\ qEverStopped = FALSE
    /\ appPhase = "created"
    /\ appServices = [s \in QueueServices |-> NewQueueService]
    /\ appUploads = 0
    /\ appTasks = <<>>
    /\ appLast = [file_id |-> 0, status |-> 0, body |-> "none"]
    /\ exCalls = 0
    /\ exLast = NoExport
    /\ sgCalls = 0
    /\ sgLast = NoSuggest
    /\ heCalls = 0
    /\ heLast = NoHandlerCall
    /\ lnManager = LearnManager
    /\ lnMinSamples = MinSamplesForConfidence
    /\ lnClock = 0
    /\ lnCalls = 0
    /\ lnLast = NoLearnCall
    /\ imJobs = EmptyDict
    /\ imNextId = 1
    /\ imLast = NoImmediate
    /\ rtArgs = [max_attempts |-> 0, delay |-> Rat(1, 1), backoff |-> Rat(2, 1), exceptions |-> "Exception"]
    /\ rtRun = NoRetry
    /\ ldManager = LearnManager
    /\ ldClock = 0
    /\ ldCalls = 0
    /\ ldLoaded = Nothing
    /\ rcDb = EmptyDB
    /\ rcThreads = [t \in Threads |-> IdleThread]
    /\ rcLast = NoRace
    /\ igTree = [files |-> EmptyDict, metas |-> EmptyDict]
    /\ igSaves = 0
    /\ igLast = NoIntegrity
    /\ opInput = [n |-> 0]
    /\ opLast = NoOptimize
    /\ prInput = [n |-> 0]
    /\ prLast = NoProcessorCall
    /\ vmLog = <<>>
    /\ rsManager = LearnManager
    /\ rsMinSamples = MinSamplesForConfidence
    /\ rsFresh = {}
    /\ rsCalls = 0
    /\ rsLast = NoResetCall
    /\ csTree = [files |-> EmptyDict, metas |-> EmptyDict]
    /\ csCalls = [c \in Coroutines |-> NotStarted]

BreakerNext ==
    \/ CallEnter
    \/ FuncReturns
    \/ FuncRaisesExpected
    \/ FuncRaisesOther
    \/ Tick

BreakerSpec == BreakerInit /\ [][BreakerNext]_vars

QueueInit ==
    /\ calcIn = None
    /\ calcOut = Nothing
    /\ adjIn = None
    /\ adjApplied = Nothing
    /\ adjValid = Nothing
    /\ heurAlpha = DefaultAlpha
    /\ heurBuckets = EmptyDict
    /\ heurDb = EmptyDB
    /\ heurLast = NoCall
    /\ heurExport = Nothing
    /\ heurExportSource = Nothing
    /\ heurTarget = Nothing
    /\ detPrimary = <<>>
    /\ detSecondary = <<>>
    /\ detMinIou = Rat(0, 1)
    /\ detPair = Nothing
    /\ detFace = Nothing
    /\ stTree = [files |-> EmptyDict, metas |-> EmptyDict]
    /\ stToday = 1
    /\ stCalls = <<>>
    /\ cbBreaker = CircuitBreaker(1, RecoveryTimeout)
    /\ cbNow = 0
    /\ cbInFlight = 0
    /\ cbCalls = 0
    /\ cbRejected = 0
    /\ cbConsecutive = 0
    /\ cbLast = NoEvent
    /\ qJobs = <<>>
    /\ qQueue = <<>>
    /\ qWorkers = <<>>
    /\ qRunning = FALSE
    /\ qTaken = <<>>
    /\ qEverStopped = FALSE
    /\ appPhase = "created"
    /\ appServices = [s \in QueueServices |-> NewQueueService]
    /\ appUploads = 0
    /\ appTasks = <<>>
    /\ appLast = [file_id |-> 0, status |-> 0, body |-> "none"]
    /\ exCalls = 0
    /\ exLast = NoExport
    /\ sgCalls = 0
    /\ sgLast = NoSuggest
    /\ heCalls = 0
    /\ heLast = NoHandlerCall
    /\ lnManager = LearnManager
    /\ lnMinSamples = MinSamplesForConfidence
    /\ lnClock = 0
    /\ lnCalls = 0
    /\ lnLast = NoLearnCall
    /\ imJobs = EmptyDict
    /\ imNextId = 1
    /\ imLast = NoImmediate
    /\ rtArgs = [max_attempts |-> 0, delay |-> Rat(1, 1), backoff |-> Rat(2, 1), exceptions |-> "Exception"]
    /\ rtRun = NoRetry
    /\ ldManager = LearnManager
    /\ ldClock = 0
    /\ ldCalls = 0
    /\ ldLoaded = Nothing
    /\ rcDb = EmptyDB
    /\ rcThreads = [t \in Threads |-> IdleThread]
    /\ rcLast = NoRace
    /\ igTree = [files |-> EmptyDict, metas |-> EmptyDict]
    /\ igSaves = 0
    /\ igLast = NoIntegrity
    /\ opInput = [n |-> 0]
    /\ opLast = NoOptimize
    /\ prInput = [n |-> 0]
    /\ prLast = NoProcessorCall
    /\ vmLog = <<>>
    /\ rsManager = LearnManager
    /\ rsMinSamples = MinSamplesForConfidence
    /\ rsFresh = {}
    /\ rsCalls = 0
    /\ rsLast = NoResetCall
    /\ csTree = [files |-> EmptyDict, metas |-> EmptyDict]
    /\ csCalls = [c \in Coroutines |-> NotStarted]

QueueNext ==
    \/ StartWorkers
    \/ AddJob
    \/ \E w \in 1..MaxWorkers : WorkerGet(w)
    \/ \E w \in 1..MaxWorkers : WorkerBegin(w)
    \/ \E w \in 1..MaxWorkers : JobCompletes(w)
    \/ \E w \in 1..MaxWorkers : JobFails(w)
    \/ \E w \in 1..MaxWorkers : WorkerReturns(w)
    \/ StopWorkers
    \/ StopWorkersDone

QueueSpec == QueueInit /\ [][QueueNext]_vars /\ QueueFairness

AppInit ==
    /\ calcIn = None
    /\ calcOut = Nothing
    /\ adjIn = None
    /\ adjApplied = Nothing
    /\ adjValid = Nothing
    /\ heurAlpha = DefaultAlpha
    /\ heurBuckets = EmptyDict
    /\ heurDb = EmptyDB
    /\ heurLast = NoCall
    /\ heurExport = Nothing
    /\ heurExportSource = Nothing
    /\ heurTarget = Nothing
    /\ detPrimary = <<>>
    /\ detSecondary = <<>>
    /\ detMinIou = Rat(0, 1)
    /\ detPair = Nothing
    /\ detFace = Nothing
    /\ stTree = [files |-> EmptyDict, metas |-> EmptyDict]
    /\ stToday = 1
    /\ stCalls = <<>>
    /\ cbBreaker = CircuitBreaker(1, RecoveryTimeout)
    /\ cbNow = 0
    /\ cbInFlight = 0
    /\ cbCalls = 0
    /\ cbRejected = 0
    /\ cbConsecutive = 0
    /\ cbLast = NoEvent
    /\ qJobs = <<>>
    /\ qQueue = <<>>
    /\ qWorkers = <<>>
    /\ qRunning = FALSE
    /\ qTaken = <<>>
    /\ qEverStopped = FALSE
    /\ appPhase = "created"
    /\ appServices = [s \in QueueServices |-> NewQueueService]
    /\ appUploads = 0
    /\ appTasks = <<>>
    /\ appLast = [file_id |-> 0, status |-> 0, body |-> "none"]
    /\ exCalls = 0
    /\ exLast = NoExport
    /\ sgCalls = 0
    /\ sgLast = NoSuggest
    /\ heCalls = 0
    /\ heLast = NoHandlerCall
    /\ lnManager = LearnManager
    /\ lnMinSamples = MinSamplesForConfidence
    /\ lnClock = 0
    /\ lnCalls = 0
    /\ lnLast = NoLearnCall
    /\ imJobs = EmptyDict
    /\ imNextId = 1
    /\ imLast = NoImmediate
    /\ rtArgs = [max_attempts |-> 0, delay |-> Rat(1, 1), backoff |-> Rat(2, 1), exceptions |-> "Exception"]
    /\ rtRun = NoRetry
    /\ ldManager = LearnManager
    /\ ldClock = 0
    /\ ldCalls = 0
    /\ ldLoaded = Nothing
    /\ rcDb = EmptyDB
    /\ rcThreads = [t \in Threads |-> IdleThread]
    /\ rcLast = NoRace
    /\ igTree = [files |-> EmptyDict, metas |-> EmptyDict]
    /\ igSaves = 0
    /\ igLast = NoIntegrity
    /\ opInput = [n |-> 0]
    /\ opLast = NoOptimize
    /\ prInput = [n |-> 0]
    /\ prLast = NoProcessorCall
    /\ vmLog = <<>>
    /\ rsManager = LearnManager
    /\ rsMinSamples = MinSamplesForConfidence
    /\ rsFresh = {}
    /\ rsCalls = 0
    /\ rsLast = NoResetCall
    /\ csTree = [files |-> EmptyDict, metas |-> EmptyDict]
    /\ csCalls = [c \in Coroutines |-> NotStarted]

AppNext ==
    \/ Startup
    \/ UploadSingle
    \/ RunBackgroundTask
    \/ \E s \in QueueServices, w \in 1..StartupWorkers : AppWorkerStep(s, w)
    \/ Shutdown

AppSpec == AppInit /\ [][AppNext]_vars /\ AppFairness

ExportInit ==
    /\ calcIn = None
    /\ calcOut = Nothing
    /\ adjIn = None
    /\ adjApplied = Nothing
    /\ adjValid = Nothing
    /\ heurAlpha = DefaultAlpha
    /\ heurBuckets = EmptyDict
    /\ heurDb = EmptyDB
    /\ heurLast = NoCall
    /\ heurExport = Nothing
    /\ heurExportSource = Nothing
    /\ heurTarget = Nothing
    /\ detPrimary = <<>>
    /\ detSecondary = <<>>
    /\ detMinIou = Rat(0, 1)
    /\ detPair = Nothing
    /\ detFace = Nothing
    /\ stTree = [files |-> EmptyDict, metas |-> EmptyDict]
    /\ stToday = 1
    /\ stCalls = <<>>
    /\ cbBreaker = CircuitBreaker(1, RecoveryTimeout)
    /\ cbNow = 0
    /\ cbInFlight = 0
    /\ cbCalls = 0
    /\ cbRejected = 0
    /\ cbConsecutive = 0
    /\ cbLast = NoEvent
    /\ qJobs = <<>>
    /\ qQueue = <<>>
    /\ qWorkers = <<>>
    /\ qRunning = FALSE
    /\ qTaken = <<>>
    /\ qEverStopped = FALSE
    /\ appPhase = "created"
    /\ appServices = [s \in QueueServices |-> NewQueueService]
    /\ appUploads = 0
    /\ appTasks = <<>>
    /\ appLast = [file_id |-> 0, status |-> 0, body |-> "none"]
    /\ exCalls = 0
    /\ exLast = NoExport
    /\ sgCalls = 0
    /\ sgLast = NoSuggest
    /\ heCalls = 0
    /\ heLast = NoHandlerCall
    /\ lnManager = LearnManager
    /\ lnMinSamples = MinSamplesForConfidence
    /\ lnClock = 0
    /\ lnCalls = 0
    /\ lnLast = NoLearnCall
    /\ imJobs = EmptyDict
    /\ imNextId = 1
    /\ imLast = NoImmediate
    /\ rtArgs = [max_attempts |-> 0, delay |-> Rat(1, 1), backoff |-> Rat(2, 1), exceptions |-> "Exception"]
    /\ rtRun = NoRetry
    /\ ldManager = LearnManager
    /\ ldClock = 0
    /\ ldCalls = 0
    /\ ldLoaded = Nothing
    /\ rcDb = EmptyDB
    /\ rcThreads = [t \in Threads |-> IdleThread]
    /\ rcLast = NoRace
    /\ igTree = [files |-> EmptyDict, metas |-> EmptyDict]
    /\ igSaves = 0
    /\ igLast = NoIntegrity
    /\ opInput = [n |-> 0]
    /\ opLast = NoOptimize
    /\ prInput = [n |-> 0]
    /\ prLast = NoProcessorCall
    /\ vmLog = <<>>
    /\ rsManager = LearnManager
    /\ rsMinSamples = MinSamplesForConfidence
    /\ rsFresh = {}
    /\ rsCalls = 0
    /\ rsLast = NoResetCall
    /\ csTree = [files |-> EmptyDict, metas |-> EmptyDict]
    /\ csCalls = [c \in Coroutines |-> NotStarted]

ExportNext ==
    \/ ExportImage

ExportSpec == ExportInit /\ [][ExportNext]_vars

SuggestInit ==
    /\ calcIn = None
    /\ calcOut = Nothing
    /\ adjIn = None
    /\ adjApplied = Nothing
    /\ adjValid = Nothing
    /\ heurAlpha = DefaultAlpha
    /\ heurBuckets = EmptyDict
    /\ heurDb = EmptyDB
    /\ heurLast = NoCall
    /\ heurExport = Nothing
    /\ heurExportSource = Nothing
    /\ heurTarget = Nothing
    /\ detPrimary = <<>>
    /\ detSecondary = <<>>
    /\ detMinIou = Rat(0, 1)
    /\ detPair = Nothing
    /\ detFace = Nothing
    /\ stTree = [files |-> EmptyDict, metas |-> EmptyDict]
    /\ stToday = 1
    /\ stCalls = <<>>
    /\ cbBreaker = CircuitBreaker(1, RecoveryTimeout)
    /\ cbNow = 0
    /\ cbInFlight = 0
    /\ cbCalls = 0
    /\ cbRejected = 0
    /\ cbConsecutive = 0
    /\ cbLast = NoEvent
    /\ qJobs = <<>>
    /\ qQueue = <<>>
    /\ qWorkers = <<>>
    /\ qRunning = FALSE
    /\ qTaken = <<>>
    /\ qEverStopped = FALSE
    /\ appPhase = "created"
    /\ appServices = [s \in QueueServices |-> NewQueueService]
    /\ appUploads = 0
    /\ appTasks = <<>>
    /\ appLast = [file_id |-> 0, status |-> 0, body |-> "none"]
    /\ exCalls = 0
    /\ exLast = NoExport
    /\ sgCalls = 0
    /\ sgLast = NoSuggest
    /\ heCalls = 0
    /\ heLast = NoHandlerCall
    /\ lnManager = LearnManager
    /\ lnMinSamples = MinSamplesForConfidence
    /\ lnClock = 0
    /\ lnCalls = 0
    /\ lnLast = NoLearnCall
    /\ imJobs = EmptyDict
    /\ imNextId = 1
    /\ imLast = NoImmediate
    /\ rtArgs = [max_attempts |-> 0, delay |-> Rat(1, 1), backoff |-> Rat(2, 1), exceptions |-> "Exception"]
    /\ rtRun = NoRetry
    /\ ldManager = LearnManager
    /\ ldClock = 0
    /\ ldCalls = 0
    /\ ldLoaded = Nothing
    /\ rcDb = EmptyDB
    /\ rcThreads = [t \in Threads |-> IdleThread]
    /\ rcLast = NoRace
    /\ igTree = [files |-> EmptyDict, metas |-> EmptyDict]
    /\ igSaves = 0
    /\ igLast = NoIntegrity
    /\ opInput = [n |-> 0]
    /\ opLast = NoOptimize
    /\ prInput = [n |-> 0]
    /\ prLast = NoProcessorCall
    /\ vmLog = <<>>
    /\ rsManager = LearnManager
    /\ rsMinSamples = MinSamplesForConfidence
    /\ rsFresh = {}
    /\ rsCalls = 0
    /\ rsLast = NoResetCall
    /\ csTree = [files |-> EmptyDict, metas |-> EmptyDict]
    /\ csCalls = [c \in Coroutines |-> NotStarted]

SuggestNext ==
    \/ GetCropSuggestions

SuggestSpec == SuggestInit /\ [][SuggestNext]_vars

HandlerInit ==
    /\ calcIn = None
    /\ calcOut = Nothing
    /\ adjIn = None
    /\ adjApplied = Nothing
    /\ adjValid = Nothing
    /\ heurAlpha = DefaultAlpha
    /\ heurBuckets = EmptyDict
    /\ heurDb = EmptyDB
    /\ heurLast = NoCall
    /\ heurExport = Nothing
    /\ heurExportSource = Nothing
    /\ heurTarget = Nothing
    /\ detPrimary = <<>>
    /\ detSecondary = <<>>
    /\ detMinIou = Rat(0, 1)
    /\ detPair = Nothing
    /\ detFace = Nothing
    /\ stTree = [files |-> EmptyDict, metas |-> EmptyDict]
    /\ stToday = 1
    /\ stCalls = <<>>
    /\ cbBreaker = CircuitBreaker(1, RecoveryTimeout)
    /\ cbNow = 0
    /\ cbInFlight = 0
    /\ cbCalls = 0
    /\ cbRejected = 0
    /\ cbConsecutive = 0
    /\ cbLast = NoEvent
    /\ qJobs = <<>>
    /\ qQueue = <<>>
    /\ qWorkers = <<>>
    /\ qRunning = FALSE
    /\ qTaken = <<>>
    /\ qEverStopped = FALSE
    /\ appPhase = "created"
    /\ appServices = [s \in QueueServices |-> NewQueueService]
    /\ appUploads = 0
    /\ appTasks = <<>>
    /\ appLast = [file_id |-> 0, status |-> 0, body |-> "none"]
    /\ exCalls = 0
    /\ exLast = NoExport
    /\ sgCalls = 0
    /\ sgLast = NoSuggest
    /\ heCalls = 0
    /\ heLast = NoHandlerCall
    /\ lnManager = LearnManager
    /\ lnMinSamples = MinSamplesForConfidence
    /\ lnClock = 0
    /\ lnCalls = 0
    /\ lnLast = NoLearnCall
    /\ imJobs = EmptyDict
    /\ imNextId = 1
    /\ imLast = NoImmediate
    /\ rtArgs = [max_attempts |-> 0, delay |-> Rat(1, 1), backoff |-> Rat(2, 1), exceptions |-> "Exception"]
    /\ rtRun = NoRetry
    /\ ldManager = LearnManager
    /\ ldClock = 0
    /\ ldCalls = 0
    /\ ldLoaded = Nothing
    /\ rcDb = EmptyDB
    /\ rcThreads = [t \in Threads |-> IdleThread]
    /\ rcLast = NoRace
    /\ igTree = [files |-> EmptyDict, metas |-> EmptyDict]
    /\ igSaves = 0
    /\ igLast = NoIntegrity
    /\ opInput = [n |-> 0]
    /\ opLast = NoOptimize
    /\ prInput = [n |-> 0]
    /\ prLast = NoProcessorCall
    /\ vmLog = <<>>
    /\ rsManager = LearnManager
    /\ rsMinSamples = MinSamplesForConfidence
    /\ rsFresh = {}
    /\ rsCalls = 0
    /\ rsLast = NoResetCall
    /\ csTree = [files |-> EmptyDict, metas |-> EmptyDict]
    /\ csCalls = [c \in Coroutines |-> NotStarted]

HandlerNext ==
    \/ CallHandler

HandlerSpec == HandlerInit /\ [][HandlerNext]_vars

LearnInit ==
    /\ calcIn = None
    /\ calcOut = Nothing
    /\ adjIn = None
    /\ adjApplied = Nothing
    /\ adjValid = Nothing
    /\ heurAlpha = DefaultAlpha
    /\ heurBuckets = EmptyDict
    /\ heurDb = EmptyDB
    /\ heurLast = NoCall
    /\ heurExport = Nothing
    /\ heurExportSource = Nothing
    /\ heurTarget = Nothing
    /\ detPrimary = <<>>
    /\ detSecondary = <<>>
    /\ detMinIou = Rat(0, 1)
    /\ detPair = Nothing
    /\ detFace = Nothing
    /\ stTree = [files |-> EmptyDict, metas |-> EmptyDict]
    /\ stToday = 1
    /\ stCalls = <<>>
    /\ cbBreaker = CircuitBreaker(1, RecoveryTimeout)
    /\ cbNow = 0
    /\ cbInFlight = 0
    /\ cbCalls = 0
    /\ cbRejected = 0
    /\ cbConsecutive = 0
    /\ cbLast = NoEvent
    /\ qJobs = <<>>
    /\ qQueue = <<>>
    /\ qWorkers = <<>>
    /\ qRunning = FALSE
    /\ qTaken = <<>>
    /\ qEverStopped = FALSE
    /\ appPhase = "created"
    /\ appServices = [s \in QueueServices |-> NewQueueService]
    /\ appUploads = 0
    /\ appTasks = <<>>
    /\ appLast = [file_id |-> 0, status |-> 0, body |-> "none"]
    /\ exCalls = 0
    /\ exLast = NoExport
    /\ sgCalls = 0
    /\ sgLast = NoSuggest
    /\ heCalls = 0
    /\ heLast = NoHandlerCall
    /\ lnManager = LearnManager
    /\ lnMinSamples \in {MinSamplesChoice, MinSamplesForConfidence}
    /\ lnClock = 0
    /\ lnCalls = 0
    /\ lnLast = NoLearnCall
    /\ imJobs = EmptyDict
    /\ imNextId = 1
    /\ imLast = NoImmediate
    /\ rtArgs = [max_attempts |-> 0, delay |-> Rat(1, 1), backoff |-> Rat(2, 1), exceptions |-> "Exception"]
    /\ rtRun = NoRetry
    /\ ldManager = LearnManager
    /\ ldClock = 0
    /\ ldCalls = 0
    /\ ldLoaded = Nothing
    /\ rcDb = EmptyDB
    /\ rcThreads = [t \in Threads |-> IdleThread]
    /\ rcLast = NoRace
    /\ igTree = [files |-> EmptyDict, metas |-> EmptyDict]
    /\ igSaves = 0
    /\ igLast = NoIntegrity
    /\ opInput = [n |-> 0]
    /\ opLast = NoOptimize
    /\ prInput = [n |-> 0]
    /\ prLast = NoProcessorCall
    /\ vmLog = <<>>
    /\ rsManager = LearnManager
    /\ rsMinSamples = MinSamplesForConfidence
    /\ rsFresh = {}
    /\ rsCalls = 0
    /\ rsLast = NoResetCall
    /\ csTree = [files |-> EmptyDict, metas |-> EmptyDict]
    /\ csCalls = [c \in Coroutines |-> NotStarted]

LearnNext ==
    \/ LearnFromAdjustment
    \/ ApplyHeuristics
    \/ CleanupOldSamples
    \/ LearnTick

LearnSpec == LearnInit /\ [][LearnNext]_vars

ImmediateInit ==
    /\ calcIn = None
    /\ calcOut = Nothing
    /\ adjIn = None
    /\ adjApplied = Nothing
    /\ adjValid = Nothing
    /\ heurAlpha = DefaultAlpha
    /\ heurBuckets = EmptyDict
    /\ heurDb = EmptyDB
    /\ heurLast = NoCall
    /\ heurExport = Nothing
    /\ heurExportSource = Nothing
    /\ heurTarget = Nothing
    /\ detPrimary = <<>>
    /\ detSecondary = <<>>
    /\ detMinIou = Rat(0, 1)
    /\ detPair = Nothing
    /\ detFace = Nothing
    /\ stTree = [files |-> EmptyDict, metas |-> EmptyDict]
    /\ stToday = 1
    /\ stCalls = <<>>
    /\ cbBreaker = CircuitBreaker(1, RecoveryTimeout)
    /\ cbNow = 0
    /\ cbInFlight = 0
    /\ cbCalls = 0
    /\ cbRejected = 0
    /\ cbConsecutive = 0
    /\ cbLast = NoEvent
    /\ qJobs = <<>>
    /\ qQueue = <<>>
    /\ qWorkers = <<>>
    /\ qRunning = FALSE
    /\ qTaken = <<>>
    /\ qEverStopped = FALSE
    /\ appPhase = "created"
    /\ appServices = [s \in QueueServices |-> NewQueueService]
    /\ appUploads = 0
    /\ appTasks = <<>>
    /\ appLast = [file_id |-> 0, status |-> 0, body |-> "none"]
    /\ exCalls = 0
    /\ exLast = NoExport
    /\ sgCalls = 0
    /\ sgLast = NoSuggest
    /\ heCalls = 0
    /\ heLast = NoHandlerCall
    /\ lnManager = LearnManager
    /\ lnMinSamples = MinSamplesForConfidence
    /\ lnClock = 0
    /\ lnCalls = 0
    /\ lnLast = NoLearnCall
    /\ imJobs = EmptyDict
    /\ imNextId = 1
    /\ imLast = NoImmediate
    /\ rtArgs = [max_attempts |-> 0, delay |-> Rat(1, 1), backoff |-> Rat(2, 1), exceptions |-> "Exception"]
    /\ rtRun = NoRetry
    /\ ldManager = LearnManager
    /\ ldClock = 0
    /\ ldCalls = 0
    /\ ldLoaded = Nothing
    /\ rcDb = EmptyDB
    /\ rcThreads = [t \in Threads |-> IdleThread]
    /\ rcLast = NoRace
    /\ igTree = [files |-> EmptyDict, metas |-> EmptyDict]
    /\ igSaves = 0
    /\ igLast = NoIntegrity
    /\ opInput = [n |-> 0]
    /\ opLast = NoOptimize
    /\ prInput = [n |-> 0]
    /\ prLast = NoProcessorCall
    /\ vmLog = <<>>
    /\ rsManager = LearnManager
    /\ rsMinSamples = MinSamplesForConfidence
    /\ rsFresh = {}
    /\ rsCalls = 0
    /\ rsLast = NoResetCall
    /\ csTree = [files |-> EmptyDict, metas |-> EmptyDict]
    /\ csCalls = [c \in Coroutines |-> NotStarted]

ImmediateNext ==
    \/ ImmediateAddJob
    \/ ImmediateWorkerDone
    \/ ProcessImmediate

ImmediateSpec == ImmediateInit /\ [][ImmediateNext]_vars

RetryInit ==
    /\ calcIn = None
    /\ calcOut = Nothing
    /\ adjIn = None
    /\ adjApplied = Nothing
    /\ adjValid = Nothing
    /\ heurAlpha = DefaultAlpha
    /\ heurBuckets = EmptyDict
    /\ heurDb = EmptyDB
    /\ heurLast = NoCall
    /\ heurExport = Nothing
    /\ heurExportSource = Nothing
    /\ heurTarget = Nothing
    /\ detPrimary = <<>>
    /\ detSecondary = <<>>
    /\ detMinIou = Rat(0, 1)
    /\ detPair = Nothing
    /\ detFace = Nothing
    /\ stTree = [files |-> EmptyDict, metas |-> EmptyDict]
    /\ stToday = 1
    /\ stCalls = <<>>
    /\ cbBreaker = CircuitBreaker(1, RecoveryTimeout)
    /\ cbNow = 0
    /\ cbInFlight = 0
    /\ cbCalls = 0
    /\ cbRejected = 0
    /\ cbConsecutive = 0
    /\ cbLast = NoEvent
    /\ qJobs = <<>>
    /\ qQueue = <<>>
    /\ qWorkers = <<>>
    /\ qRunning = FALSE
    /\ qTaken = <<>>
    /\ qEverStopped = FALSE
    /\ appPhase = "created"
    /\ appServices = [s \in QueueServices |-> NewQueueService]
    /\ appUploads = 0
    /\ appTasks = <<>>
    /\ appLast = [file_id |-> 0, status |-> 0, body |-> "none"]
    /\ exCalls = 0
    /\ exLast = NoExport
    /\ sgCalls = 0
    /\ sgLast = NoSuggest
    /\ heCalls = 0
    /\ heLast = NoHandlerCall
    /\ lnManager = LearnManager
    /\ lnMinSamples = MinSamplesForConfidence
    /\ lnClock = 0
    /\ lnCalls = 0
    /\ lnLast = NoLearnCall
    /\ imJobs = EmptyDict
    /\ imNextId = 1
    /\ imLast = NoImmediate
    /\ rtArgs \in RetryArgs
    /\ rtRun = NoRetry
    /\ ldManager = LearnManager
    /\ ldClock = 0
    /\ ldCalls = 0
    /\ ldLoaded = Nothing
    /\ rcDb = EmptyDB
    /\ rcThreads = [t \in Threads |-> IdleThread]
    /\ rcLast = NoRace
    /\ igTree = [files |-> EmptyDict, metas |-> EmptyDict]
    /\ igSaves = 0
    /\ igLast = NoIntegrity
    /\ opInput = [n |-> 0]
    /\ opLast = NoOptimize
    /\ prInput = [n |-> 0]
    /\ prLast = NoProcessorCall
    /\ vmLog = <<>>
    /\ rsManager = LearnManager
    /\ rsMinSamples = MinSamplesForConfidence
    /\ rsFresh = {}
    /\ rsCalls = 0
    /\ rsLast = NoResetCall
    /\ csTree = [files |-> EmptyDict, metas |-> EmptyDict]
    /\ csCalls = [c \in Coroutines |-> NotStarted]

RetryNext ==
    \/ RetryStart
    \/ RetryFuncReturns
    \/ RetryFuncRaises
    \/ RetrySleepDone

RetrySpec == RetryInit /\ [][RetryNext]_vars

LoadInit ==
    /\ calcIn = None
    /\ calcOut = Nothing
    /\ adjIn = None
    /\ adjApplied = Nothing
    /\ adjValid = Nothing
    /\ heurAlpha = DefaultAlpha
    /\ heurBuckets = EmptyDict
    /\ heurDb = EmptyDB
    /\ heurLast = NoCall
    /\ heurExport = Nothing
    /\ heurExportSource = Nothing
    /\ heurTarget = Nothing
    /\ detPrimary = <<>>
    /\ detSecondary = <<>>
    /\ detMinIou = Rat(0, 1)
    /\ detPair = Nothing
    /\ detFace = Nothing
    /\ stTree = [files |-> EmptyDict, metas |-> EmptyDict]
    /\ stToday = 1
    /\ stCalls = <<>>
    /\ cbBreaker = CircuitBreaker(1, RecoveryTimeout)
    /\ cbNow = 0
    /\ cbInFlight = 0
    /\ cbCalls = 0
    /\ cbRejected = 0
    /\ cbConsecutive = 0
    /\ cbLast = NoEvent
    /\ qJobs = <<>>
    /\ qQueue = <<>>
    /\ qWorkers = <<>>
    /\ qRunning = FALSE
    /\ qTaken = <<>>
    /\ qEverStopped = FALSE
    /\ appPhase = "created"
    /\ appServices = [s \in QueueServices |-> NewQueueService]
    /\ appUploads = 0
    /\ appTasks = <<>>
    /\ appLast = [file_id |-> 0, status |-> 0, body |-> "none"]
    /\ exCalls = 0
    /\ exLast = NoExport
    /\ sgCalls = 0
    /\ sgLast = NoSuggest
    /\ heCalls = 0
    /\ heLast = NoHandlerCall
    /\ lnManager = LearnManager
    /\ lnMinSamples = MinSamplesForConfidence
    /\ lnClock = 0
    /\ lnCalls = 0
    /\ lnLast = NoLearnCall
    /\ imJobs = EmptyDict
    /\ imNextId = 1
    /\ imLast = NoImmediate
    /\ rtArgs = [max_attempts |-> 0, delay |-> Rat(1, 1), backoff |-> Rat(2, 1), exceptions |-> "Exception"]
    /\ rtRun = NoRetry
    /\ ldManager = LearnManager
    /\ ldClock = 0
    /\ ldCalls = 0
    /\ ldLoaded = Nothing
    /\ rcDb = EmptyDB
    /\ rcThreads = [t \in Threads |-> IdleThread]
    /\ rcLast = NoRace
    /\ igTree = [files |-> EmptyDict, metas |-> EmptyDict]
    /\ igSaves = 0
    /\ igLast = NoIntegrity
    /\ opInput = [n |-> 0]
    /\ opLast = NoOptimize
    /\ prInput = [n |-> 0]
    /\ prLast = NoProcessorCall
    /\ vmLog = <<>>
    /\ rsManager = LearnManager
    /\ rsMinSamples = MinSamplesForConfidence
    /\ rsFresh = {}
    /\ rsCalls = 0
    /\ rsLast = NoResetCall
    /\ csTree = [files |-> EmptyDict, metas |-> EmptyDict]
    /\ csCalls = [c \in Coroutines |-> NotStarted]

LoadNext ==
    \/ LoadLearn
    \/ LoadCleanup
    \/ LoadTick
    \/ ConstructManager

LoadSpec == LoadInit /\ [][LoadNext]_vars

RaceInit ==
    /\ calcIn = None
    /\ calcOut = Nothing
    /\ adjIn = None
    /\ adjApplied = Nothing
    /\ adjValid = Nothing
    /\ heurAlpha = DefaultAlpha
    /\ heurBuckets = EmptyDict
    /\ heurDb = EmptyDB
    /\ heurLast = NoCall
    /\ heurExport = Nothing
    /\ heurExportSource = Nothing
    /\ heurTarget = Nothing
    /\ detPrimary = <<>>
    /\ detSecondary = <<>>
    /\ detMinIou = Rat(0, 1)
    /\ detPair = Nothing
    /\ detFace = Nothing
    /\ stTree = [files |-> EmptyDict, metas |-> EmptyDict]
    /\ stToday = 1
    /\ stCalls = <<>>
    /\ cbBreaker = CircuitBreaker(1, RecoveryTimeout)
    /\ cbNow = 0
    /\ cbInFlight = 0
    /\ cbCalls = 0
    /\ cbRejected = 0
    /\ cbConsecutive = 0
    /\ cbLast = NoEvent
    /\ qJobs = <<>>
    /\ qQueue = <<>>
    /\ qWorkers = <<>>
    /\ qRunning = FALSE
    /\ qTaken = <<>>
    /\ qEverStopped = FALSE
    /\ appPhase = "created"
    /\ appServices = [s \in QueueServices |-> NewQueueService]
    /\ appUploads = 0
    /\ appTasks = <<>>
    /\ appLast = [file_id |-> 0, status |-> 0, body |-> "none"]
    /\ exCalls = 0
    /\ exLast = NoExport
    /\ sgCalls = 0
    /\ sgLast = NoSuggest
    /\ heCalls = 0
    /\ heLast = NoHandlerCall
    /\ lnManager = LearnManager
    /\ lnMinSamples = MinSamplesForConfidence
    /\ lnClock = 0
    /\ lnCalls = 0
    /\ lnLast = NoLearnCall
    /\ imJobs = EmptyDict
    /\ imNextId = 1
    /\ imLast = NoImmediate
    /\ rtArgs = [max_attempts |-> 0, delay |-> Rat(1, 1), backoff |-> Rat(2, 1), exceptions |-> "Exception"]
    /\ rtRun = NoRetry
    /\ ldManager = LearnManager
    /\ ldClock = 0
    /\ ldCalls = 0
    /\ ldLoaded = Nothing
    /\ rcDb \in RaceDatabases
    /\ rcThreads = [t \in Threads |-> IdleThread]
    /\ rcLast = NoRace
    /\ igTree = [files |-> EmptyDict, metas |-> EmptyDict]
    /\ igSaves = 0
    /\ igLast = NoIntegrity
    /\ opInput = [n |-> 0]
    /\ opLast = NoOptimize
    /\ prInput = [n |-> 0]
    /\ prLast = NoProcessorCall
    /\ vmLog = <<>>
    /\ rsManager = LearnManager
    /\ rsMinSamples = MinSamplesForConfidence
    /\ rsFresh = {}
    /\ rsCalls = 0
    /\ rsLast = NoResetCall
    /\ csTree = [files |-> EmptyDict, metas |-> EmptyDict]
    /\ csCalls = [c \in Coroutines |-> NotStarted]

RaceNext ==
    \/ \E t \in Threads : RaceSelect(t)
    \/ \E t \in Threads : RaceWrite(t)

RaceSpec == RaceInit /\ [][RaceNext]_vars

IntegrityInit ==
    /\ calcIn = None
    /\ calcOut = Nothing
    /\ adjIn = None
    /\ adjApplied = Nothing
    /\ adjValid = Nothing
    /\ heurAlpha = DefaultAlpha
    /\ heurBuckets = EmptyDict
    /\ heurDb = EmptyDB
    /\ heurLast = NoCall
    /\ heurExport = Nothing
    /\ heurExportSource = Nothing
    /\ heurTarget = Nothing
    /\ detPrimary = <<>>
    /\ detSecondary = <<>>
    /\ detMinIou = Rat(0, 1)
    /\ detPair = Nothing
    /\ detFace = Nothing
    /\ stTree = [files |-> EmptyDict, metas |-> EmptyDict]
    /\ stToday = 1
    /\ stCalls = <<>>
    /\ cbBreaker = CircuitBreaker(1, RecoveryTimeout)
    /\ cbNow = 0
    /\ cbInFlight = 0
    /\ cbCalls = 0
    /\ cbRejected = 0
    /\ cbConsecutive = 0
    /\ cbLast = NoEvent
    /\ qJobs = <<>>
    /\ qQueue = <<>>
    /\ qWorkers = <<>>
    /\ qRunning = FALSE
    /\ qTaken = <<>>
    /\ qEverStopped = FALSE
    /\ appPhase = "created"
    /\ appServices = [s \in QueueServices |-> NewQueueService]
    /\ appUploads = 0
    /\ appTasks = <<>>
    /\ appLast = [file_id |-> 0, status |-> 0, body |-> "none"]
    /\ exCalls = 0
    /\ exLast = NoExport
    /\ sgCalls = 0
    /\ sgLast = NoSuggest
    /\ heCalls = 0
    /\ heLast = NoHandlerCall
    /\ lnManager = LearnManager
    /\ lnMinSamples = MinSamplesForConfidence
    /\ lnClock = 0
    /\ lnCalls = 0
    /\ lnLast = NoLearnCall
    /\ imJobs = EmptyDict
    /\ imNextId = 1
    /\ imLast = NoImmediate
    /\ rtArgs = [max_attempts |-> 0, delay |-> Rat(1, 1), backoff |-> Rat(2, 1), exceptions |-> "Exception"]
    /\ rtRun = NoRetry
    /\ ldManager = LearnManager
    /\ ldClock = 0
    /\ ldCalls = 0
    /\ ldLoaded = Nothing
    /\ rcDb = EmptyDB
    /\ rcThreads = [t \in Threads |-> IdleThread]
    /\ rcLast = NoRace
    /\ igTree = [files |-> EmptyDict, metas |-> EmptyDict]
    /\ igSaves = 0
    /\ igLast = NoIntegrity
    /\ opInput = [n |-> 0]
    /\ opLast = NoOptimize
    /\ prInput = [n |-> 0]
    /\ prLast = NoProcessorCall
    /\ vmLog = <<>>
    /\ rsManager = LearnManager
    /\ rsMinSamples = MinSamplesForConfidence
    /\ rsFresh = {}
    /\ rsCalls = 0
    /\ rsLast = NoResetCall
    /\ csTree = [files |-> EmptyDict, metas |-> EmptyDict]
    /\ csCalls = [c \in Coroutines |-> NotStarted]

IntegrityNext ==
    \/ IntegritySaveOutput
    \/ IntegrityRawWrite
    \/ IntegrityUnlink
    \/ VerifyIntegrity

IntegritySpec == IntegrityInit /\ [][IntegrityNext]_vars

OptimizerInit ==
    /\ calcIn = None
    /\ calcOut = Nothing
    /\ adjIn = None
    /\ adjApplied = Nothing
    /\ adjValid = Nothing
    /\ heurAlpha = DefaultAlpha
    /\ heurBuckets = EmptyDict
    /\ heurDb = EmptyDB
    /\ heurLast = NoCall
    /\ heurExport = Nothing
    /\ heurExportSource = Nothing
    /\ heurTarget = Nothing
    /\ detPrimary = <<>>
    /\ detSecondary = <<>>
    /\ detMinIou = Rat(0, 1)
    /\ detPair = Nothing
    /\ detFace = Nothing
    /\ stTree = [files |-> EmptyDict, metas |-> EmptyDict]
    /\ stToday = 1
    /\ stCalls = <<>>
    /\ cbBreaker = CircuitBreaker(1, RecoveryTimeout)
    /\ cbNow = 0
    /\ cbInFlight = 0
    /\ cbCalls = 0
    /\ cbRejected = 0
    /\ cbConsecutive = 0
    /\ cbLast = NoEvent
    /\ qJobs = <<>>
    /\ qQueue = <<>>
    /\ qWorkers = <<>>
    /\ qRunning = FALSE
    /\ qTaken = <<>>
    /\ qEverStopped = FALSE
    /\ appPhase = "created"
    /\ appServices = [s \in QueueServices |-> NewQueueService]
    /\ appUploads = 0
    /\ appTasks = <<>>
    /\ appLast = [file_id |-> 0, status |-> 0, body |-> "none"]
    /\ exCalls = 0
    /\ exLast = NoExport
    /\ sgCalls = 0
    /\ sgLast = NoSuggest
    /\ heCalls = 0
    /\ heLast = NoHandlerCall
    /\ lnManager = LearnManager
    /\ lnMinSamples = MinSamplesForConfidence
    /\ lnClock = 0
    /\ lnCalls = 0
    /\ lnLast = NoLearnCall
    /\ imJobs = EmptyDict
    /\ imNextId = 1
    /\ imLast = NoImmediate
    /\ rtArgs = [max_attempts |-> 0, delay |-> Rat(1, 1), backoff |-> Rat(2, 1), exceptions |-> "Exception"]
    /\ rtRun = NoRetry
    /\ ldManager = LearnManager
    /\ ldClock = 0
    /\ ldCalls = 0
    /\ ldLoaded = Nothing
    /\ rcDb = EmptyDB
    /\ rcThreads = [t \in Threads |-> IdleThread]
    /\ rcLast = NoRace
    /\ igTree = [files |-> EmptyDict, metas |-> EmptyDict]
    /\ igSaves = 0
    /\ igLast = NoIntegrity
    /\ opInput \in OptimizeInputs
    /\ opLast = NoOptimize
    /\ prInput = [n |-> 0]
    /\ prLast = NoProcessorCall
    /\ vmLog = <<>>
    /\ rsManager = LearnManager
    /\ rsMinSamples = MinSamplesForConfidence
    /\ rsFresh = {}
    /\ rsCalls = 0
    /\ rsLast = NoResetCall
    /\ csTree = [files |-> EmptyDict, metas |-> EmptyDict]
    /\ csCalls = [c \in Coroutines |-> NotStarted]

OptimizerNext ==
    \/ OptimizeImage

OptimizerSpec == OptimizerInit /\ [][OptimizerNext]_vars

ProcessorInit ==
    /\ calcIn = None
    /\ calcOut = Nothing
    /\ adjIn = None
    /\ adjApplied = Nothing
    /\ adjValid = Nothing
    /\ heurAlpha = DefaultAlpha
    /\ heurBuckets = EmptyDict
    /\ heurDb = EmptyDB
    /\ heurLast = NoCall
    /\ heurExport = Nothing
    /\ heurExportSource = Nothing
    /\ heurTarget = Nothing
    /\ detPrimary = <<>>
    /\ detSecondary = <<>>
    /\ detMinIou = Rat(0, 1)
    /\ detPair = Nothing
    /\ detFace = Nothing
    /\ stTree = [files |-> EmptyDict, metas |-> EmptyDict]
    /\ stToday = 1
    /\ stCalls = <<>>
    /\ cbBreaker = CircuitBreaker(1, RecoveryTimeout)
    /\ cbNow = 0
    /\ cbInFlight = 0
    /\ cbCalls = 0
    /\ cbRejected = 0
    /\ cbConsecutive = 0
    /\ cbLast = NoEvent
    /\ qJobs = <<>>
    /\ qQueue = <<>>
    /\ qWorkers = <<>>
    /\ qRunning = FALSE
    /\ qTaken = <<>>
    /\ qEverStopped = FALSE
    /\ appPhase = "created"
    /\ appServices = [s \in QueueServices |-> NewQueueService]
    /\ appUploads = 0
    /\ appTasks = <<>>
    /\ appLast = [file_id |-> 0, status |-> 0, body |-> "none"]
    /\ exCalls = 0
    /\ exLast = NoExport
    /\ sgCalls = 0
    /\ sgLast = NoSuggest
    /\ heCalls = 0
    /\ heLast = NoHandlerCall
    /\ lnManager = LearnManager
    /\ lnMinSamples = MinSamplesForConfidence
    /\ lnClock = 0
    /\ lnCalls = 0
    /\ lnLast = NoLearnCall
    /\ imJobs = EmptyDict
    /\ imNextId = 1
    /\ imLast = NoImmediate
    /\ rtArgs = [max_attempts |-> 0, delay |-> Rat(1, 1), backoff |-> Rat(2, 1), exceptions |-> "Exception"]
    /\ rtRun = NoRetry
    /\ ldManager = LearnManager
    /\ ldClock = 0
    /\ ldCalls = 0
    /\ ldLoaded = Nothing
    /\ rcDb = EmptyDB
    /\ rcThreads = [t \in Threads |-> IdleThread]
    /\ rcLast = NoRace
    /\ igTree = [files |-> EmptyDict, metas |-> EmptyDict]
    /\ igSaves = 0
    /\ igLast = NoIntegrity
    /\ opInput = [n |-> 0]
    /\ opLast = NoOptimize
    /\ prInput \in ProcessorInputs
    /\ prLast = NoProcessorCall
    /\ vmLog = <<>>
    /\ rsManager = LearnManager
    /\ rsMinSamples = MinSamplesForConfidence
    /\ rsFresh = {}
    /\ rsCalls = 0
    /\ rsLast = NoResetCall
    /\ csTree = [files |-> EmptyDict, metas |-> EmptyDict]
    /\ csCalls = [c \in Coroutines |-> NotStarted]

ProcessorNext ==
    \/ OptimizeImageBytes

ProcessorSpec == ProcessorInit /\ [][ProcessorNext]_vars

ValidatorsInit ==
    /\ calcIn = None
    /\ calcOut = Nothing
    /\ adjIn = None
    /\ adjApplied = Nothing
    /\ adjValid = Nothing
    /\ heurAlpha = DefaultAlpha
    /\ heurBuckets = EmptyDict
    /\ heurDb = EmptyDB
    /\ heurLast = NoCall
    /\ heurExport = Nothing
    /\ heurExportSource = Nothing
    /\ heurTarget = Nothing
    /\ detPrimary = <<>>
    /\ detSecondary = <<>>
    /\ detMinIou = Rat(0, 1)
    /\ detPair = Nothing
    /\ detFace = Nothing
    /\ stTree = [files |-> EmptyDict, metas |-> EmptyDict]
    /\ stToday = 1
    /\ stCalls = <<>>
    /\ cbBreaker = CircuitBreaker(1, RecoveryTimeout)
    /\ cbNow = 0
    /\ cbInFlight = 0
    /\ cbCalls = 0
    /\ cbRejected = 0
    /\ cbConsecutive = 0
    /\ cbLast = NoEvent
    /\ qJobs = <<>>
    /\ qQueue = <<>>
    /\ qWorkers = <<>>
    /\ qRunning = FALSE
    /\ qTaken = <<>>
    /\ qEverStopped = FALSE
    /\ appPhase = "created"
    /\ appServices = [s \in QueueServices |-> NewQueueService]
    /\ appUploads = 0
    /\ appTasks = <<>>
    /\ appLast = [file_id |-> 0, status |-> 0, body |-> "none"]
    /\ exCalls = 0
    /\ exLast = NoExport
    /\ sgCalls = 0
    /\ sgLast = NoSuggest
    /\ heCalls = 0
    /\ heLast = NoHandlerCall
    /\ lnManager = LearnManager
    /\ lnMinSamples = MinSamplesForConfidence
    /\ lnClock = 0
    /\ lnCalls = 0
    /\ lnLast = NoLearnCall
    /\ imJobs = EmptyDict
    /\ imNextId = 1
    /\ imLast = NoImmediate
    /\ rtArgs = [max_attempts |-> 0, delay |-> Rat(1, 1), backoff |-> Rat(2, 1), exceptions |-> "Exception"]
    /\ rtRun = NoRetry
    /\ ldManager = LearnManager
    /\ ldClock = 0
    /\ ldCalls = 0
    /\ ldLoaded = Nothing
    /\ rcDb = EmptyDB
    /\ rcThreads = [t \in Threads |-> IdleThread]
    /\ rcLast = NoRace
    /\ igTree = [files |-> EmptyDict, metas |-> EmptyDict]
    /\ igSaves = 0
    /\ igLast = NoIntegrity
    /\ opInput = [n |-> 0]
    /\ opLast = NoOptimize
    /\ prInput = [n |-> 0]
    /\ prLast = NoProcessorCall
    /\ vmLog = <<>>
    /\ rsManager = LearnManager
    /\ rsMinSamples = MinSamplesForConfidence
    /\ rsFresh = {}
    /\ rsCalls = 0
    /\ rsLast = NoResetCall
    /\ csTree = [files |-> EmptyDict, metas |-> EmptyDict]
    /\ csCalls = [c \in Coroutines |-> NotStarted]

ValidatorsNext ==
    \/ ValidateMimeType

ValidatorsSpec == ValidatorsInit /\ [][ValidatorsNext]_vars

ResetInit ==
    /\ calcIn = None
    /\ calcOut = Nothing
    /\ adjIn = None
    /\ adjApplied = Nothing
    /\ adjValid = Nothing
    /\ heurAlpha = DefaultAlpha
    /\ heurBuckets = EmptyDict
    /\ heurDb = EmptyDB
    /\ heurLast = NoCall
    /\ heurExport = Nothing
    /\ heurExportSource = Nothing
    /\ heurTarget = Nothing
    /\ detPrimary = <<>>
    /\ detSecondary = <<>>
    /\ detMinIou = Rat(0, 1)
    /\ detPair = Nothing
    /\ detFace = Nothing
    /\ stTree = [files |-> EmptyDict, metas |-> EmptyDict]
    /\ stToday = 1
    /\ stCalls = <<>>
    /\ cbBreaker = CircuitBreaker(1, RecoveryTimeout)
    /\ cbNow = 0
    /\ cbInFlight = 0
    /\ cbCalls = 0
    /\ cbRejected = 0
    /\ cbConsecutive = 0
    /\ cbLast = NoEvent
    /\ qJobs = <<>>
    /\ qQueue = <<>>
    /\ qWorkers = <<>>
    /\ qRunning = FALSE
    /\ qTaken = <<>>
    /\ qEverStopped = FALSE
    /\ appPhase = "created"
    /\ appServices = [s \in QueueServices |-> NewQueueService]
    /\ appUploads = 0
    /\ appTasks = <<>>
    /\ appLast = [file_id |-> 0, status |-> 0, body |-> "none"]
    /\ exCalls = 0
    /\ exLast = NoExport
    /\ sgCalls = 0
    /\ sgLast = NoSuggest
    /\ heCalls = 0
    /\ heLast = NoHandlerCall
    /\ lnManager = LearnManager
    /\ lnMinSamples = MinSamplesForConfidence
    /\ lnClock = 0
    /\ lnCalls = 0
    /\ lnLast = NoLearnCall
    /\ imJobs = EmptyDict
    /\ imNextId = 1
    /\ imLast = NoImmediate
    /\ rtArgs = [max_attempts |-> 0, delay |-> Rat(1, 1), backoff |-> Rat(2, 1), exceptions |-> "Exception"]
    /\ rtRun = NoRetry
    /\ ldManager = LearnManager
    /\ ldClock = 0
    /\ ldCalls = 0
    /\ ldLoaded = Nothing
    /\ rcDb = EmptyDB
    /\ rcThreads = [t \in Threads |-> IdleThread]
    /\ rcLast = NoRace
    /\ igTree = [files |-> EmptyDict, metas |-> EmptyDict]
    /\ igSaves = 0
    /\ igLast = NoIntegrity
    /\ opInput = [n |-> 0]
    /\ opLast = NoOptimize
    /\ prInput = [n |-> 0]
    /\ prLast = NoProcessorCall
    /\ vmLog = <<>>
    /\ rsManager = LearnManager
    /\ rsMinSamples \in {MinSamplesChoice, MinSamplesForConfidence}
    /\ rsFresh = {}
    /\ rsCalls = 0
    /\ rsLast = NoResetCall
    /\ csTree = [files |-> EmptyDict, metas |-> EmptyDict]
    /\ csCalls = [c \in Coroutines |-> NotStarted]

ResetNext ==
    \/ ResetLearn
    \/ ResetLearning
    \/ ResetApply

ResetSpec == ResetInit /\ [][ResetNext]_vars

ConcurrentSaveInit ==
    /\ calcIn = None
    /\ calcOut = Nothing
    /\ adjIn = None
    /\ adjApplied = Nothing
    /\ adjValid = Nothing
    /\ heurAlpha = DefaultAlpha
    /\ heurBuckets = EmptyDict
    /\ heurDb = EmptyDB
    /\ heurLast = NoCall
    /\ heurExport = Nothing
    /\ heurExportSource = Nothing
    /\ heurTarget = Nothing
    /\ detPrimary = <<>>
    /\ detSecondary = <<>>
    /\ detMinIou = Rat(0, 1)
    /\ detPair = Nothing
    /\ detFace = Nothing
    /\ stTree = [files |-> EmptyDict, metas |-> EmptyDict]
    /\ stToday = 1
    /\ stCalls = <<>>
    /\ cbBreaker = CircuitBreaker(1, RecoveryTimeout)
    /\ cbNow = 0
    /\ cbInFlight = 0
    /\ cbCalls = 0
    /\ cbRejected = 0
    /\ cbConsecutive = 0
    /\ cbLast = NoEvent
    /\ qJobs = <<>>
    /\ qQueue = <<>>
    /\ qWorkers = <<>>
    /\ qRunning = FALSE
    /\ qTaken = <<>>
    /\ qEverStopped = FALSE
    /\ appPhase = "created"
    /\ appServices = [s \in QueueServices |-> NewQueueService]
    /\ appUploads = 0
    /\ appTasks = <<>>
    /\ appLast = [file_id |-> 0, status |-> 0, body |-> "none"]
    /\ exCalls = 0
    /\ exLast = NoExport
    /\ sgCalls = 0
    /\ sgLast = NoSuggest
    /\ heCalls = 0
    /\ heLast = NoHandlerCall
    /\ lnManager = LearnManager
    /\ lnMinSamples = MinSamplesForConfidence
    /\ lnClock = 0
    /\ lnCalls = 0
    /\ lnLast = NoLearnCall
    /\ imJobs = EmptyDict
    /\ imNextId = 1
    /\ imLast = NoImmediate
    /\ rtArgs = [max_attempts |-> 0, delay |-> Rat(1, 1), backoff |-> Rat(2, 1), exceptions |-> "Exception"]
    /\ rtRun = NoRetry
    /\ ldManager = LearnManager
    /\ ldClock = 0
    /\ ldCalls = 0
    /\ ldLoaded = Nothing
    /\ rcDb = EmptyDB
    /\ rcThreads = [t \in Threads |-> IdleThread]
    /\ rcLast = NoRace
    /\ igTree = [files |-> EmptyDict, metas |-> EmptyDict]
    /\ igSaves = 0
    /\ igLast = NoIntegrity
    /\ opInput = [n |-> 0]
    /\ opLast = NoOptimize
    /\ prInput = [n |-> 0]
    /\ prLast = NoProcessorCall
    /\ vmLog = <<>>
    /\ rsManager = LearnManager
    /\ rsMinSamples = MinSamplesForConfidence
    /\ rsFresh = {}
    /\ rsCalls = 0
    /\ rsLast = NoResetCall
    /\ csTree \in OldTrees
    /\ csCalls = [c \in Coroutines |-> NotStarted]

ConcurrentSaveNext ==
    \/ \E c \in Coroutines : SaveChoosePath(c)
    \/ \E c \in Coroutines : SaveOpen(c)
    \/ \E c \in Coroutines : SaveWrite(c)
    \/ \E c \in Coroutines : SaveMeta(c)

ConcurrentSaveSpec == ConcurrentSaveInit /\ [][ConcurrentSaveNext]_vars

(***************************************************************************)
(* Properties                                                              *)
(***************************************************************************)

\* C1: for every preset type, face box and positive image size, the crop that
\* calculate_crop returns passes validate_crop_bounds: (True, None).
C1_CropAlwaysValid ==
    calcOut # Nothing =>
        validate_crop_bounds(ValueOf(calcOut), calcIn.image_width, calcIn.image_height)
            = <<TRUE, None>>

\* C2: apply_to_crop scales first (floor of size * scale), recentres by half the
\* size change, then adds the offsets, and the box is then adjusted to the image
\* bounds; CropBox(200,200,100,100) with ManualAdjustment(20,10,2.0) on a
\* 1000 x 1000 image gives exactly (170, 160, 200, 200).
C2_ScaleThenTranslate ==
    adjApplied # Nothing =>
        LET c == adjIn.crop
            a == adjIn.adjustment
            nw == (c.width * a.scale) \div ScaleDen
            nh == (c.height * a.scale) \div ScaleDen
            nx == c.x + ((c.width - nw) \div 2) + a.offset_x
            ny == c.y + ((c.height - nh) \div 2) + a.offset_y
        IN  /\ ValueOf(adjApplied)
                  = adjust_to_bounds(CropBox(nx, ny, nw, nh, c.preset_type),
                                     adjIn.image_width, adjIn.image_height)
            /\ ( /\ c = CropBox(200, 200, 100, 100, "headshot")
                 /\ a = ManualAdjustment(20, 10, 2 * ScaleDen)
                 /\ adjIn.image_width = 1000 /\ adjIn.image_height = 1000 )
               => ValueOf(adjApplied) = CropBox(170, 160, 200, 200, "headshot")

C2_Witness ==
    /\ adjApplied # Nothing
    /\ adjIn.crop = CropBox(200, 200, 100, 100, "headshot")
    /\ adjIn.adjustment = ManualAdjustment(20, 10, 2 * ScaleDen)
    /\ adjIn.image_width = 1000 /\ adjIn.image_height = 1000
    /\ adjApplied = Some(CropBox(170, 160, 200, 200, "headshot"))

\* The box apply_to_crop is asked for, before it is adjusted to the image.
RequestedLeavesImage ==
    LET c == adjIn.crop
        a == adjIn.adjustment
        nw == (c.width * a.scale) \div ScaleDen
        nh == (c.height * a.scale) \div ScaleDen
        nx == c.x + ((c.width - nw) \div 2) + a.offset_x
        ny == c.y + ((c.height - nh) \div 2) + a.offset_y
    IN  \/ nx < 0 \/ ny < 0
        \/ nx + nw > adjIn.image_width \/ ny + nh > adjIn.image_height

\* C3: validate_manual_adjustment rejects scale < 0.5 and scale > 2.0 with the
\* messages naming 0.5 and 2.0, lets scale = 0.5 and scale = 2.0 past the scale
\* check, rejects with "too small" when the applied result is under 100 px wide
\* or high, and otherwise accepts, also when the requested box leaves the image.
C3_ValidateAdjustment ==
    adjValid # Nothing =>
        LET a == adjIn.adjustment
            r == ValueOf(adjValid)
            applied == apply_to_crop(a, adjIn.crop, adjIn.image_width, adjIn.image_height)
            tooLow == 2 * a.scale < ScaleDen
            tooHigh == a.scale > 2 * ScaleDen
            small == applied.width < 100 \/ applied.height < 100
        IN  /\ tooLow => r = <<FALSE, "Scale cannot be less than 0.5">>
            /\ tooHigh => r = <<FALSE, "Scale cannot be greater than 2.0">>
            /\ (~tooLow /\ ~tooHigh /\ small) => r = <<FALSE, "Adjusted crop is too small">>
            /\ (~tooLow /\ ~tooHigh /\ ~small) => r = <<TRUE, None>>

C3_Witness ==
    /\ adjValid = Some(<<TRUE, None>>)
    /\ adjIn.adjustment.scale = 2 * ScaleDen
    /\ RequestedLeavesImage


\* C4: update_bucket and update_ema_parameter store the first value seen for a
\* key unchanged and replace a stored value s by (1 - alpha) * s + alpha * v on
\* every later value v (0.1 then 0.2 with alpha 0.2 gives 0.12 = 3/25); the
\* row's sample_count is 1 after the first update and grows by 1 with each later.
C4_EmaUpdate ==
    [][ heurLast'.n = heurLast.n + 1 =>
        LET c == heurLast'
        IN  /\ c.op = "update_bucket" =>
                LET new == heurBuckets'[c.bucket_key][c.parameter_name]
                IN  IF HasParam(heurBuckets, c.bucket_key, c.parameter_name)
                    THEN LET s == heurBuckets[c.bucket_key][c.parameter_name]
                         IN  /\ new = RatAdd(RatMul(RatSub(RatOne, heurAlpha), s),
                                             RatMul(heurAlpha, c.new_value))
                             /\ (heurAlpha = Rat(1, 5) /\ s = Rat(1, 10) /\ c.new_value = Rat(2, 10))
                                    => new = Rat(12, 100)
                    ELSE new = c.new_value
            /\ c.op = "update_ema_parameter" =>
                LET new == heurDb'.params[c.key]
                IN  IF c.key \in DOMAIN heurDb.params
                    THEN LET old == heurDb.params[c.key]
                         IN  /\ new.value = RatAdd(RatMul(RatSub(RatOne, c.alpha), old.value),
                                                   RatMul(c.alpha, c.new_value))
                             /\ new.sample_count = old.sample_count + 1
                    ELSE new.value = c.new_value /\ new.sample_count = 1
      ]_vars

C4_Witness ==
    /\ heurLast.op = "update_ema_parameter"
    /\ heurLast.alpha = Rat(1, 5)
    /\ heurDb.params[heurLast.key].sample_count = 2
    /\ heurDb.params[heurLast.key].value = Rat(12, 100)
    /\ heurDb.params[heurLast.key].alpha = Rat(1, 5)
    /\ HasParam(heurBuckets, "portrait_medium", "center_x_offset")
    /\ heurBuckets["portrait_medium"]["center_x_offset"] = Rat(1, 10)

\* C5: exporting a model and importing it into a fresh manager reproduces the
\* value of every (aspect_class, zoom_level, parameter_name) key of the source:
\* in the params table (get_ema_parameters) and in the in-memory EMA buckets.
C5_ExportImportRoundTrip ==
    heurTarget # Nothing =>
        LET src == ValueOf(heurExportSource)
            tgt == ValueOf(heurTarget)
        IN  /\ \A key \in DOMAIN src.db.params :
                  /\ key[3] \in DOMAIN get_ema_parameters(tgt.db, key[1], key[2])
                  /\ get_ema_parameters(tgt.db, key[1], key[2])[key[3]]
                        = src.db.params[key].value
            /\ \A bk \in DOMAIN src.buckets : \A p \in DOMAIN src.buckets[bk] :
                  /\ HasParam(tgt.buckets, bk, p)
                  /\ tgt.buckets[bk][p] = src.buckets[bk][p]

C5_Witness ==
    /\ heurTarget # Nothing
    /\ Cardinality(DOMAIN ValueOf(heurExportSource).db.params) >= 2
    /\ \E key \in DOMAIN ValueOf(heurExportSource).db.params :
          ValueOf(heurTarget).db.params[key].id # ValueOf(heurExportSource).db.params[key].id
    /\ DOMAIN ValueOf(heurExportSource).buckets # {}

\* The (primary, secondary) index pairs whose IoU is at least min_iou.
QualifyingPairs(primary, secondary, min_iou) ==
    {p \in (1..Len(primary)) \X (1..Len(secondary)) :
        ~RatLess(compute_iou(primary[p[1]].bbox, secondary[p[2]].bbox), min_iou)}

\* find_unique_best_pair returns a pair exactly when one pair qualifies, and
\* then that pair.
UniquePairReturned ==
    detPair # Nothing =>
        LET q == QualifyingPairs(detPrimary, detSecondary, detMinIou)
        IN  IF Cardinality(q) = 1 THEN ValueOf(detPair) \in q ELSE ValueOf(detPair) = NoPair

\* C6: find_unique_best_pair returns a pair exactly when one and only one
\* (primary, secondary) pair has IoU >= min_iou, and then that pair; when no
\* pair or several pairs qualify (whatever the threshold) detect_face reports
\* no face.
C6_UniquePairOnly ==
    /\ UniquePairReturned
    /\ detFace # Nothing =>
          \A t \in IouThresholds :
              Cardinality(QualifyingPairs(detPrimary, detSecondary, t)) # 1
                  => ValueOf(detFace).kind = "None"

SameOutputName(c1, c2) ==
    /\ c1.employee_name = c2.employee_name
    /\ c1.preset_name = c2.preset_name
    /\ c1.today = c2.today

\* C7: for every save_output call: under SUFFIX no file that existed keeps a
\* changed content, and when the call before it was a SUFFIX save of the same
\* employee, preset and day the two returned paths differ and both exist;
\* OVERWRITE returns the un-suffixed path, which is the first path when two
\* SUFFIX saves into a free name came before; SKIP on an existing path
\* returns it and writes neither the file nor a sidecar.
C7_DuplicateHandling ==
    [][ Len(stCalls') = Len(stCalls) + 1 =>
        LET n == Len(stCalls')
            c == stCalls'[n]
            first_path == OutputStem(c.employee_name, c.preset_name, c.today) \o Extension
        IN  /\ c.duplicate_handling = "suffix" =>
                /\ \A p \in DOMAIN stTree.files : stTree'.files[p] = stTree.files[p]
                /\ c.path \notin DOMAIN stTree.files
                /\ c.path \in DOMAIN stTree'.files
                /\ (n >= 2 /\ stCalls[n - 1].duplicate_handling = "suffix"
                           /\ SameOutputName(stCalls[n - 1], c)) =>
                        /\ c.path # stCalls[n - 1].path
                        /\ stCalls[n - 1].path \in DOMAIN stTree'.files
            /\ c.duplicate_handling = "overwrite" =>
                /\ c.path = first_path
                /\ stTree'.files[c.path] = [id |-> n, size |-> n]
                /\ (n >= 3 /\ stCalls[n - 1].duplicate_handling = "suffix"
                           /\ stCalls[n - 2].duplicate_handling = "suffix"
                           /\ SameOutputName(stCalls[n - 1], c)
                           /\ SameOutputName(stCalls[n - 2], c)
                           /\ stTree.files[first_path].id = n - 2) =>
                        c.path = stCalls[n - 2].path
            /\ (c.duplicate_handling = "skip" /\ first_path \in DOMAIN stTree.files) =>
                /\ c.path = first_path
                /\ stTree' = stTree
      ]_vars

\* Two SUFFIX saves into a free name, the second stepping over an old _1
\* file, then an OVERWRITE and a SKIP of the same name.
C7_Witness ==
    /\ Len(stCalls) = 4
    /\ stCalls[1].duplicate_handling = "suffix"
    /\ stCalls[2].duplicate_handling = "suffix"
    /\ stCalls[3].duplicate_handling = "overwrite"
    /\ stCalls[4].duplicate_handling = "skip"
    /\ \A i \in 2..4 : SameOutputName(stCalls[1], stCalls[i])
    /\ stCalls[1].path = stCalls[3].path
    /\ stCalls[2].path = SuffixedPath(OutputStem("Ann/Lee", "headshot", 1), 2)
    /\ stTree.files[SuffixedPath(OutputStem("Ann/Lee", "headshot", 1), 1)] = OldContent
    /\ stCalls[4].path = stCalls[1].path
    /\ ~stCalls[4].written
    /\ stTree.files[stCalls[4].path].id = 3

\* C8: of every step of a call: the failure_threshold-th consecutive call
\* raising expected_exception leaves the breaker open; a call entered while
\* the breaker is open and fewer than recovery_timeout seconds after the last
\* failure raises ProcessingError, the function not invoked and the breaker
\* untouched; a call entered while it is open at or after recovery_timeout
\* invokes the function with the breaker half-open; a call that succeeds
\* leaves failure_count 0 and the state closed.
C8_CircuitBreaker ==
    [][ cbLast'.n = cbLast.n + 1 =>
        LET e == cbLast'
            wait_over == cbNow >= ValueOf(cbBreaker.last_failure_time) + cbBreaker.recovery_timeout
        IN  /\ (e.op = "expected_exception" /\ cbConsecutive' >= cbBreaker.failure_threshold)
                    => cbBreaker'.state = "open"
            /\ (e.op \in {"enter", "ProcessingError"} /\ cbBreaker.state = "open") =>
                    /\ cbBreaker.last_failure_time # Nothing
                    /\ IF wait_over
                       THEN /\ e.op = "enter"
                            /\ cbInFlight' = cbInFlight + 1
                            /\ cbBreaker'.state = "half-open"
                       ELSE /\ e.op = "ProcessingError"
                            /\ cbInFlight' = cbInFlight
                            /\ cbBreaker' = cbBreaker
            /\ e.op = "return" => cbBreaker'.failure_count = 0 /\ cbBreaker'.state = "closed"
      ]_vars

\* A breaker with threshold 2 that opened, rejected a call, and was closed
\* again by a successful half-open probe.
C8_Witness ==
    /\ cbBreaker.failure_threshold = 2
    /\ cbRejected >= 1
    /\ cbLast.op = "return"
    /\ cbLast.from = "half-open"
    /\ cbBreaker.state = "closed"
    /\ cbBreaker.failure_count = 0
    /\ cbBreaker.last_failure_time # Nothing

StatusMoves ==
    {<<"queued", "processing">>, <<"processing", "completed">>, <<"processing", "failed">>}

\* C9: of every step and every job: its status stays or moves queued ->
\* processing, processing -> completed or processing -> failed (so completed
\* and failed never change); afterwards a completed job has started_at,
\* completed_at, output_path and processing_time set, a failed job error and
\* completed_at.
C9_JobStateMachine ==
    [][ /\ \A j \in DOMAIN qJobs :
              \/ qJobs'[j].status = qJobs[j].status
              \/ <<qJobs[j].status, qJobs'[j].status>> \in StatusMoves
        /\ \A j \in DOMAIN qJobs' :
              /\ qJobs'[j].status \in {"queued", "processing", "completed", "failed"}
              /\ qJobs'[j].status = "completed" =>
                    /\ qJobs'[j].started_at # Nothing
                    /\ qJobs'[j].completed_at # Nothing
                    /\ qJobs'[j].output_path # Nothing
                    /\ qJobs'[j].processing_time # Nothing
              /\ qJobs'[j].status = "failed" =>
                    /\ qJobs'[j].error # Nothing
                    /\ qJobs'[j].completed_at # Nothing
      ]_vars

\* Both ends of the state machine: one job completed, one failed with the
\* empty message of an exception raised without arguments.
C9_Witness ==
    /\ Len(qJobs) >= 2
    /\ \E j, k \in DOMAIN qJobs :
        /\ qJobs[j].status = "completed"
        /\ qJobs[j].output_path = Some(OutputPathOf(j))
        /\ qJobs[j].processing_time = Some(Elapsed)
        /\ qJobs[k].status = "failed"
        /\ qJobs[k].error = Some("")

TakenJobs == {qTaken[i].job : i \in DOMAIN qTaken}

\* The workers were started and stop_workers has never been called.
WorkersUp == qRunning /\ ~qEverStopped

\* C10: with the workers started and not stopped, under the fair scheduling
\* of QueueFairness: every job waiting in the queue is eventually taken, the
\* i-th job taken is the i-th job added, every taken job eventually is
\* completed or failed, and a worker whose job failed is back at queue.get().
C10_QueueLiveness ==
    /\ \A j \in 1..MaxJobs :
          ((\E i \in DOMAIN qQueue : qQueue[i] = j) /\ WorkersUp) ~> (j \in TakenJobs \/ qEverStopped)
    /\ \A j \in 1..MaxJobs :
          (j \in TakenJobs /\ WorkersUp)
              ~> ((j \in DOMAIN qJobs /\ qJobs[j].status \in {"completed", "failed"}) \/ qEverStopped)
    /\ [](\A i \in DOMAIN qTaken : qTaken[i].job = i)
    /\ [][ \A w \in DOMAIN qWorkers :
              (qWorkers[w].pc = "processing" /\ qJobs'[qWorkers[w].job].status = "failed")
                  => (w \in DOMAIN qWorkers' /\ qWorkers'[w] = WorkerAt("get", NoJob)) ]_vars

\* Workers never stopped: a worker's first job failed and the same worker
\* then took and completed the next one.
C10_Witness ==
    /\ ~qEverStopped
    /\ qRunning
    /\ Len(qTaken) = 2
    /\ qTaken[1].worker = qTaken[2].worker
    /\ qJobs[1].status = "failed"
    /\ qJobs[2].status = "completed"
    /\ qQueue = <<>>

UploadJobsStayQueued ==
    \A j \in DOMAIN appServices["upload.processing_queue"].jobs :
        appServices["upload.processing_queue"].jobs[j].status = "queued"

\* C12: a single-preset export of an uploaded image whose detection did not
\* raise: for an employee preset the answer is 400 exactly when there is
\* neither a detected face nor a crop_box, and an image otherwise; for a
\* project preset it is 400 without a crop_box and an image with one.
C12_ExportSinglePreset ==
    (exCalls > 0 /\ exLast.upload /\ exLast.detection # "raises") =>
        /\ exLast.preset \in preset_map =>
              IF exLast.detection = "none" /\ ~Truthy(exLast.crop_box)
              THEN exLast.response.status_code = 400
              ELSE exLast.response.status_code = 200
        /\ exLast.preset \in DOMAIN project_sizes =>
              IF Truthy(exLast.crop_box)
              THEN exLast.response.status_code = 200
              ELSE exLast.response.status_code = 400

\* C13: for a stored upload in which no face is detected the suggestions
\* endpoint answers with a success response carrying the three project
\* crops, image_dimensions, a top-level confidence and the message; it
\* answers with no error.
C13_NoFaceSuggestions ==
    (sgCalls > 0 /\ sgLast.upload /\ sgLast.detection = Nothing) =>
        /\ sgLast.response.kind = "response"
        /\ sgLast.response.names = <<"proj_header", "proj_thumbnail", "proj_description">>
        /\ sgLast.response.image_dimensions = [width |-> sgLast.width, height |-> sgLast.height]
        /\ sgLast.response.message = SuggestionsMessage

\* C14: a handler wrapped by handle_errors with log_errors left at its
\* default: an AppError gives its status code and code (a JSON envelope on
\* the async path, an HTTPException on the sync path), another Exception
\* gives 500 with the fallback message, and nothing but an HTTPException
\* leaves the wrapper for a handler that raised an Exception.
C14_HandleErrors ==
    (heCalls > 0 /\ heLast.log_errors /\ heLast.outcome.kind = "raise"
       /\ IsException(heLast.outcome.exception)) =>
        LET e == heLast.outcome.exception
            r == heLast.result
        IN  /\ r.kind = "raise" => r.exception.type = "HTTPException"
            /\ (e.type = "AppError" /\ heLast.is_async) =>
                  /\ r.kind = "JSONResponse"
                  /\ r.status_code = e.status_code
                  /\ r.content.code = e.code
            /\ (e.type = "AppError" /\ ~heLast.is_async) =>
                  /\ r.kind = "raise"
                  /\ r.exception.status_code = e.status_code
                  /\ r.exception.detail.code = e.code
            /\ (e.type \notin {"AppError", "HTTPException"} /\ heLast.is_async) =>
                  /\ r.kind = "JSONResponse"
                  /\ r.status_code = 500
                  /\ r.content.message = heLast.fallback_message
            /\ (e.type \notin {"AppError", "HTTPException"} /\ ~heLast.is_async) =>
                  /\ r.kind = "raise"
                  /\ r.exception.status_code = 500
                  /\ r.exception.detail.message = heLast.fallback_message

\* With log_errors = False the same statement holds of every call.
HandleErrorsQuiet ==
    (heCalls > 0 /\ ~heLast.log_errors /\ heLast.outcome.kind = "raise"
       /\ IsException(heLast.outcome.exception)) =>
        LET e == heLast.outcome.exception
            r == heLast.result
        IN  /\ r.kind = "raise" => r.exception.type = "HTTPException"
            /\ (e.type = "AppError" /\ heLast.is_async) =>
                  r.kind = "JSONResponse" /\ r.status_code = e.status_code
            /\ (e.type = "AppError" /\ ~heLast.is_async) =>
                  r.kind = "raise" /\ r.exception.status_code = e.status_code

\* C15: a call of learn_from_adjustment in which a step raised returns
\* normally and leaves the buckets, the params table and the samples table
\* as they were before the call.
C15_FailedLearningLeavesNothing ==
    (lnLast.op = "learn_from_adjustment" /\ lnLast.raises # "none") =>
        /\ lnLast.returned = "None"
        /\ lnManager = lnLast.before

\* The samples of a bucket in a samples table, counted up to SampleLimit.
CountedSamples(samples, aspect_class, zoom_level) ==
    Min(SampleLimit,
        Cardinality({i \in DOMAIN samples : samples[i].aspect_class = aspect_class
                                            /\ samples[i].zoom_level = zoom_level}))

\* Whether the params table holds a row of the bucket.
HasPersistedParams(db, aspect_class, zoom_level) ==
    \E key \in DOMAIN db.params : key[1] = aspect_class /\ key[2] = zoom_level

\* C16: apply_heuristics reports adjustments_applied exactly when the bucket
\* has persisted parameters and min(1, n / min_samples_for_confidence) is at
\* least the confidence threshold, n being the bucket's samples counted up
\* to 1000; otherwise, and when a step raised, it returns the base crop and
\* adjustments_applied = False.
C16_AdjustmentsApplied ==
    lnLast.op = "apply_heuristics" =>
        LET n == CountedSamples(lnLast.before.samples, lnLast.aspect_class, "medium")
            expected == /\ ~lnLast.raises
                        /\ HasPersistedParams(lnLast.before.db, lnLast.aspect_class, "medium")
                        /\ ~RatLess(RatMin(RatOne, Rat(n, lnMinSamples)),
                                    lnLast.confidence_threshold)
        IN  /\ lnLast.returned.adjustments_applied = expected
            /\ ~expected => lnLast.returned.crop = BaseCrop

\* Heuristics applied at the default threshold 0.3 with a confidence below
\* 1, and the crop moved.
C16_Witness ==
    /\ lnLast.op = "apply_heuristics"
    /\ lnLast.returned.adjustments_applied
    /\ lnLast.confidence_threshold = Rat(3, 10)
    /\ RatLess(lnLast.returned.confidence, RatOne)
    /\ lnLast.returned.crop # BaseCrop

\* C18: cleanup_old_samples(days_to_keep=0) deletes every sample committed
\* before it, one inserted at the same instant included, and returns their
\* number.
C18_CleanupDeletesAll ==
    (lnLast.op = "cleanup_old_samples" /\ lnLast.days_to_keep = 0) =>
        /\ lnManager.samples = <<>>
        /\ lnLast.returned = Len(lnLast.before.samples)

\* A cleanup with days_to_keep = 0 deletes every sample whose second has
\* passed or is under way.
CleanupDeletesOlder ==
    (lnLast.op = "cleanup_old_samples" /\ lnLast.days_to_keep = 0) =>
        /\ \A i \in DOMAIN lnManager.samples : lnManager.samples[i].created_at = lnLast.now
        /\ lnLast.returned = Len(lnLast.before.samples) - Len(lnManager.samples)

\* The size a portrait calculator gives before it looks at the image: the
\* height fm * face.height, at least min_h, and the width int(height * an / ad).
UnclampedHeight(face, fm, min_h) == Max(TruncDiv(face.height * fm, 1), min_h)
UnclampedWidth(face, an, ad, fm, min_h) == TruncDiv(UnclampedHeight(face, fm, min_h) * an, ad)

\* The image holds that size: no clamp to the image bounds changes it.
NotClamped(in, an, ad, fm, min_h) ==
    /\ in.image_height >= UnclampedHeight(in.face, fm, min_h)
    /\ in.image_width >= UnclampedWidth(in.face, an, ad, fm, min_h)

\* |width / height - an / ad| <= 0.01
RatioWithinHundredth(crop, an, ad) ==
    /\ crop.height > 0
    /\ 100 * Abs(crop.width * ad - an * crop.height) <= ad * crop.height

\* C17: calculate_crop gives width = height for headshot, avatar and
\* thumbnail, and a width / height within 0.01 of 0.8 for website and of
\* 0.85 for full_body when no clamp to the image bounds changed the size.
C17_AspectRatios ==
    calcOut # Nothing =>
        LET crop == ValueOf(calcOut)
        IN  /\ calcIn.preset_type \in {"headshot", "avatar", "thumbnail"} =>
                  crop.width = crop.height
            /\ (calcIn.preset_type = "website" /\ NotClamped(calcIn, 4, 5, 4, WebsiteMinHeight)) =>
                  RatioWithinHundredth(crop, 4, 5)
            /\ (calcIn.preset_type = "full_body"
                  /\ NotClamped(calcIn, 17, 20, 5, FullBodyMinHeight)) =>
                  RatioWithinHundredth(crop, 17, 20)

\* A website crop sized by the face (taller than the minimum height) in an
\* image that holds it.
C17_Witness ==
    /\ calcOut # Nothing
    /\ calcIn.preset_type = "website"
    /\ NotClamped(calcIn, 4, 5, 4, WebsiteMinHeight)
    /\ ValueOf(calcOut).height > WebsiteMinHeight
    /\ ValueOf(calcOut).width < ValueOf(calcOut).height

\* C19: process_immediate returns the status record of the job it processed,
\* with status completed or failed, and never None.
C19_ProcessImmediate ==
    imLast.op = "process_immediate" =>
        /\ imLast.returned # Nothing
        /\ ValueOf(imLast.returned).job_id = imLast.job_id
        /\ ValueOf(imLast.returned).status \in {"completed", "failed"}

\* The job itself has been processed to completed or failed, and the value
\* returned is None.
ProcessImmediateReturnsNone ==
    imLast.op = "process_immediate" =>
        /\ imLast.job.status \in {"completed", "failed"}
        /\ imLast.returned = Nothing

\* delay * backoff^(k-1)
RECURSIVE BackoffDelay(_, _, _)
BackoffDelay(delay, backoff, k) ==
    IF k = 1 THEN delay ELSE RatMul(BackoffDelay(delay, backoff, k - 1), backoff)

\* The calls of func that raised an exception of the filter
CaughtFailure(outcome) == outcome.kind = "raise" /\ InFilter(outcome.type, rtArgs.exceptions)

\* C20: retry_async calls func at most max_attempts times; it returns the
\* first successful result without a further call; the sleep after failed
\* attempt k is delay * backoff^(k-1); after the last failed attempt that
\* attempt's exception is raised without a sleep; an exception outside the
\* filter leaves at once, without a sleep or a further attempt.
C20_RetryAsync ==
    LET calls == Len(rtRun.outcomes)
        sleeps == Len(rtRun.sleeps)
    IN  /\ calls <= rtArgs.max_attempts
        /\ \A k \in 1..calls : rtRun.outcomes[k].attempt = k
        /\ \A k \in 1..(calls - 1) : CaughtFailure(rtRun.outcomes[k])
        /\ \A k \in 1..sleeps : rtRun.sleeps[k] = BackoffDelay(rtArgs.delay, rtArgs.backoff, k)
        /\ rtRun.pc = "calling" => sleeps = calls
        /\ rtRun.pc = "sleeping" => sleeps = calls /\ calls < rtArgs.max_attempts
        /\ rtRun.pc = "returned" =>
              /\ rtRun.outcomes[calls].kind = "return"
              /\ rtRun.result = Some([value |-> "result", attempt |-> calls])
              /\ sleeps = calls - 1
        /\ (rtRun.pc = "raised" /\ calls > 0) =>
              /\ rtRun.outcomes[calls].kind = "raise"
              /\ rtRun.result = Some([type |-> rtRun.outcomes[calls].type, attempt |-> calls])
              /\ sleeps = calls - 1
              /\ CaughtFailure(rtRun.outcomes[calls]) => calls = rtArgs.max_attempts

\* Three failed attempts with delay 0.5 and backoff 1.5: sleeps of 0.5 and
\* 0.75, then the third exception raised.
C20_Witness ==
    /\ rtRun.pc = "raised"
    /\ rtArgs.max_attempts = 3
    /\ rtRun.sleeps = <<Rat(1, 2), Rat(3, 4)>>
    /\ rtRun.result = Some([type |-> "ValueError", attempt |-> 3])

\* The pairs with at least one recorded sample and at least one persisted
\* parameter.
PairsWithSamplesAndParams ==
    {pair \in AspectClasses \X LoadZoomLevels :
        /\ \E i \in DOMAIN ldManager.samples :
              /\ ldManager.samples[i].aspect_class = pair[1]
              /\ ldManager.samples[i].zoom_level = pair[2]
        /\ DOMAIN get_ema_parameters(ldManager.db, pair[1], pair[2]) # {}}

\* C21: a manager constructed over an existing database (get_statistics not
\* raising) holds a bucket for a pair exactly when the pair has recorded
\* samples and persisted parameters, each loaded value being the persisted
\* one.
C21_LoadedBuckets ==
    (ldLoaded # Nothing /\ ~ValueOf(ldLoaded).raises) =>
        LET buckets == ValueOf(ldLoaded).buckets
        IN  /\ DOMAIN buckets = {create_bucket_key(pair[1], pair[2]) :
                                    pair \in PairsWithSamplesAndParams}
            /\ \A pair \in PairsWithSamplesAndParams :
                  buckets[create_bucket_key(pair[1], pair[2])] =
                      get_ema_parameters(ldManager.db, pair[1], pair[2])

\* Every pair with samples and parameters is loaded with its persisted
\* values; the buckets may hold more.
LoadedAtLeast ==
    (ldLoaded # Nothing /\ ~ValueOf(ldLoaded).raises) =>
        \A pair \in PairsWithSamplesAndParams :
            /\ create_bucket_key(pair[1], pair[2]) \in DOMAIN ValueOf(ldLoaded).buckets
            /\ ValueOf(ldLoaded).buckets[create_bucket_key(pair[1], pair[2])] =
                  get_ema_parameters(ldManager.db, pair[1], pair[2])

\* C22: update_ema_parameter calls on one parameter do not exclude each
\* other. An UPDATE stores the EMA of the value its thread read and that
\* thread's sample_count plus one, whatever another thread stored after the
\* read; two threads can hold the same row read at once (C22_Witness), and
\* the row then counts one of their two updates.
C22_ReadModifyWriteInterleaves ==
    (rcLast # NoRace /\ rcLast.row # Nothing) =>
        /\ ~rcLast.raised
        /\ rcDb.params[RaceKey].value =
              calculate_ema(ValueOf(rcLast.row).value, rcLast.new_value, DefaultAlpha)
        /\ rcDb.params[RaceKey].sample_count = ValueOf(rcLast.row).sample_count + 1

C22_Witness ==
    /\ \A t \in Threads : rcThreads[t].pc = "selected" /\ rcThreads[t].row # Nothing
    /\ rcThreads[1].row = rcThreads[2].row
    /\ rcThreads[1].row = select_ema_parameter(rcDb, RaceKey)

\* Two updates that ran one after the other are both counted.
LostUpdate ==
    /\ rcLast # NoRace /\ rcLast.row # Nothing
    /\ rcLast.before # rcLast.row

\* The data files a sidecar belongs to: those whose with_suffix('.meta.json')
\* is the sidecar.
DataFilesOf(meta, fs) == {d \in DOMAIN fs.files : with_suffix(d, ".meta.json") = meta}

\* C23: verify_integrity lists a sidecar under orphaned_metadata exactly when
\* its data file does not exist, and a data file of originals or output
\* under missing_metadata exactly when it has no sidecar; a data file stored
\* with its sidecar is in neither list, and neither is that sidecar.
C23_VerifyIntegrity ==
    igLast # NoIntegrity =>
        /\ igLast.issues.orphaned_metadata =
              {p \in DOMAIN igLast.tree.metas : DataFilesOf(p, igLast.tree) = {}}
        /\ igLast.issues.missing_metadata =
              {d \in DOMAIN igLast.tree.files :
                  with_suffix(d, ".meta.json") \notin DOMAIN igLast.tree.metas}

\* The missing_metadata half holds, and every sidecar is listed as orphaned.
MissingMetadataExact ==
    igLast # NoIntegrity =>
        /\ igLast.issues.missing_metadata =
              {d \in DOMAIN igLast.tree.files :
                  with_suffix(d, ".meta.json") \notin DOMAIN igLast.tree.metas}
        /\ igLast.issues.orphaned_metadata = DOMAIN igLast.tree.metas

\* The PNG bytes the stages start from, and whether each stage ran, failed
\* in the helper's sense (returned None) or raised, in the last call.
Baseline == IF opLast.optimizer.strip_metadata THEN opLast.stripped_size ELSE opLast.png_size
OxipngRuns == opLast.optimizer.oxipng_available
PngquantRuns == opLast.optimizer.enable_lossy /\ opLast.optimizer.pngquant_available
StageRaised ==
    \/ OxipngRuns /\ opLast.oxipng_outcome = StageRaises
    \/ PngquantRuns /\ opLast.pngquant_outcome = StageRaises
OxipngShrank ==
    /\ OxipngRuns /\ opLast.oxipng_outcome \notin {StageNone, StageRaises}
    /\ opLast.oxipng_outcome.size > 0 /\ opLast.oxipng_outcome.size < Baseline
SizeAfterOxipng == IF OxipngShrank THEN opLast.oxipng_outcome.size ELSE Baseline
PngquantShrank ==
    /\ PngquantRuns /\ opLast.pngquant_outcome \notin {StageNone, StageRaises}
    /\ opLast.pngquant_outcome.size > 0 /\ opLast.pngquant_outcome.size < SizeAfterOxipng

RaisingStageFails ==
    (opLast # NoOptimize /\ StageRaised) =>
        /\ ~opLast.returned.result.success
        /\ opLast.returned.bytes = Bytes("png", Baseline)

\* C25: optimize_image_bytes sends the bytes to Tinify only when Tinify is
\* active and auto_optimize is true; with auto_optimize false PNG bytes go
\* to the local optimizer and JPEG/WebP bytes come back unchanged; PNG bytes
\* come back unchanged when USE_PNG_OPTIMIZATION is off.
C25_TinifyOnlyWhenAuto ==
    prLast # NoProcessorCall =>
        /\ prLast.returned.sent_to_tinify => (prInput.use_tinify /\ prInput.auto_optimize)
        /\ (~prInput.auto_optimize /\ prInput.format # "png") =>
              prLast.returned.bytes = EncodedBytes
        /\ (~prInput.USE_PNG_OPTIMIZATION /\ prInput.format = "png") =>
              prLast.returned.bytes = EncodedBytes

\* Everything of the claim but the manual PNG path of a Tinify service.
TinifyOnlyWhenActive ==
    prLast # NoProcessorCall =>
        /\ prLast.returned.sent_to_tinify =>
              /\ prInput.use_tinify
              /\ prInput.auto_optimize \/ prInput.format = "png"
        /\ (~prInput.auto_optimize /\ prInput.format # "png") =>
              prLast.returned.bytes = EncodedBytes
        /\ (~prInput.USE_PNG_OPTIMIZATION /\ prInput.format = "png") =>
              prLast.returned.bytes = EncodedBytes
        /\ (~prInput.use_tinify /\ prInput.format = "png" /\ prInput.USE_PNG_OPTIMIZATION
               /\ ~prInput.outcomes.open_raises /\ ~prInput.outcomes.local_raises) =>
              prLast.returned.by = "local"

\* C26: validate_mime_type raises ValidationError with code
\* INVALID_MIME_TYPE when the sniffed type is not an allowed image type, and
\* with code MIME_CHECK_FAILED only when the sniffing itself fails.
C26_InvalidMimeType ==
    \A i \in DOMAIN vmLog :
        /\ (~vmLog[i].sniffed.raises /\ vmLog[i].sniffed.mime \notin ALLOWED_MIME_TYPES) =>
              /\ vmLog[i].ended.raised = "ValidationError"
              /\ vmLog[i].ended.code = "INVALID_MIME_TYPE"
        /\ (vmLog[i].ended.raised = "ValidationError"
               /\ vmLog[i].ended.code = "MIME_CHECK_FAILED") => vmLog[i].sniffed.raises

\* An allowed type is returned; everything else ends in MIME_CHECK_FAILED.
MimeCheckFailedForAll ==
    \A i \in DOMAIN vmLog :
        IF ~vmLog[i].sniffed.raises /\ vmLog[i].sniffed.mime \in ALLOWED_MIME_TYPES
        THEN vmLog[i].ended = [raised |-> "none", value |-> vmLog[i].sniffed.mime]
        ELSE vmLog[i].ended.raised = "ValidationError" /\ vmLog[i].ended.code = "MIME_CHECK_FAILED"

\* C27: cleanup_old_samples leaves every persisted and in-memory EMA
\* parameter as it was, and for every bucket and threshold a later
\* apply_heuristics gives the adjustments_applied flag and the crop it gave
\* before the cleanup.
C27_CleanupKeepsHeuristics ==
    lnLast.op = "cleanup_old_samples" =>
        /\ lnManager.db = lnLast.before.db
        /\ lnManager.buckets = lnLast.before.buckets
        /\ \A aspect_class \in AspectClasses, confidence_threshold \in ConfidenceThresholds :
              LET before == apply_heuristics(lnLast.before, lnMinSamples, aspect_class, BaseCrop,
                                             confidence_threshold, FALSE)
                  after == apply_heuristics(lnManager, lnMinSamples, aspect_class, BaseCrop,
                                            confidence_threshold, FALSE)
              IN  /\ after.adjustments_applied = before.adjustments_applied
                  /\ after.crop = before.crop

\* The frame half: the parameters, persisted and in memory, are untouched.
CleanupKeepsParameters ==
    lnLast.op = "cleanup_old_samples" =>
        /\ lnManager.db = lnLast.before.db
        /\ lnManager.buckets = lnLast.before.buckets

\* C28: whenever apply_heuristics reports adjustments_applied = TRUE the crop
\* it returns was computed from the learned parameters of the bucket, which
\* the calculator therefore holds; and for a bucket reset by reset_learning
\* with no learning since, it reports adjustments_applied = FALSE.
C28_AppliedMeansLearned ==
    (rsLast.op = "apply_heuristics" /\ ~rsLast.raises) =>
        LET bucket_key == create_bucket_key(rsLast.aspect_class, "medium")
        IN  /\ rsLast.returned.adjustments_applied => bucket_key \in DOMAIN rsManager.buckets
            /\ bucket_key \in rsFresh => ~rsLast.returned.adjustments_applied

\* Without a reset_learning call, adjustments_applied = TRUE does mean that
\* the calculator holds the bucket.
AppliedMeansLearnedUnlessReset ==
    (rsLast.op = "apply_heuristics" /\ ~rsLast.raises /\ rsFresh = {}
        /\ rsLast.returned.adjustments_applied) =>
            create_bucket_key(rsLast.aspect_class, "medium") \in DOMAIN rsManager.buckets

\* C29: two concurrent save_output calls for one employee, preset and day
\* under SUFFIX never write to the same path: once both have returned,
\* their paths differ and each path holds its own call's content.
C29_ConcurrentSavesDistinct ==
    (\A c \in Coroutines : csCalls[c].pc = "done") =>
        /\ csCalls[1].path # csCalls[2].path
        /\ \A c \in Coroutines : csTree.files[csCalls[c].path] = ContentOf(c)

\* C30: the breaker is closed only with failure_count < failure_threshold,
\* and a wrapped function that returns or raises while the breaker is
\* half-open leaves it closed (a return) or open (any exception): it is not
\* half-open after the probe.
C30_HalfOpenProbeDecides ==
    /\ cbBreaker.state = "closed" => cbBreaker.failure_count < cbBreaker.failure_threshold
    /\ (cbLast.from = "half-open" /\ cbLast.op = "return") => cbBreaker.state = "closed"
    /\ (cbLast.from = "half-open" /\ cbLast.op \in {"expected_exception", "other_exception"}) =>
          cbBreaker.state = "open"

\* The claim for exceptions of the expected_exception class only.
HalfOpenProbeExpected ==
    /\ cbBreaker.state = "closed" => cbBreaker.failure_count < cbBreaker.failure_threshold
    /\ (cbLast.from = "half-open" /\ cbLast.op = "return") => cbBreaker.state = "closed"
    /\ (cbLast.from = "half-open" /\ cbLast.op = "expected_exception") =>
          cbBreaker.state = "open"
    /\ (cbLast.from = "half-open" /\ cbLast.op = "other_exception") =>
          cbBreaker.state = "half-open"

====
